---- MODULE Spec2Model ----
(***************************************************************************)
(* A model of one reconciliation pass of plugins/modules/ec2_instance.py   *)
(* (main and everything it calls) against an abstract EC2 provider.        *)
(*                                                                         *)
(* The provider is the map inst: instance id -> live record.  Every        *)
(* provider call the module issues is appended to the log calls, with the  *)
(* lifecycle state the module had observed for the instance when it        *)
(* decided on the call.  Provider verdicts (a call raising an error, a     *)
(* waiter running out of attempts) are chosen nondeterministically by the  *)
(* action that issues the call.                                            *)
(***************************************************************************)
EXTENDS Integers, Sequences, FiniteSets, TLC

\* ------------------------------------------------------------------ bounds
MaxInst == 3        \* instance ids the provider can hand out
MaxTime == 2        \* distinct launch times of pre-existing instances
MaxCount == 2       \* largest declared count / exact_count
MaxPass == 2        \* reconciliation passes run in sequence
MaxAlt == 2         \* alternate instance types a declaration lists

Ids == 1..MaxInst

\* Python None for an optional string parameter, and for an optional int.
None == "None"
NoneInt == -1

\* Python truthiness of an optional int parameter: None and 0 are falsy.
TruthyInt(n) == n /= NoneInt /\ n /= 0
\* Python truthiness of an optional string parameter.
Truthy(s) == s /= None /\ s /= ""

\* ------------------------------------------------------------------ provider
LiveStates == {"pending", "running", "stopping", "stopped"}
GoneStates == {"shutting-down", "terminated"}
\* "none": the id has not been handed out by the provider yet.
AllStates == LiveStates \cup GoneStates \cup {"none"}

ModuleStates ==
  {"present", "started", "running", "stopped", "restarted", "rebooted", "terminated", "absent"}

\* The states a waiter accepts as its success condition.
WaiterTarget(waiter) ==
  CASE waiter = "instance_exists" -> LiveStates \cup GoneStates
    [] waiter = "instance_status_ok" -> {"running"}
    [] waiter = "instance_running" -> {"running"}
    [] waiter = "instance_stopped" -> {"stopped"}
    [] waiter = "instance_terminated" -> {"terminated"}

\* Where the provider takes an instance on its own while the module polls.
Settle(s) ==
  CASE s = "pending" -> "running"
    [] s = "stopping" -> "stopped"
    [] s = "shutting-down" -> "terminated"
    [] OTHER -> s

\* The provider's reaction to an accepted lifecycle call.
AfterCall(op, s) ==
  CASE op = "start" /\ s = "stopped" -> "pending"
    [] op = "stop" /\ s \in {"pending", "running"} -> "stopping"
    [] op = "terminate" /\ s \in LiveStates -> "shutting-down"
    [] OTHER -> s

\* One entry of the call log.
\* n and token are the count and the client token of a creation call, WaiterConfig
\* is the configuration of a wait.
Call(op, ids, arg, obs, ok) ==
  [op |-> op, ids |-> ids, arg |-> arg, obs |-> obs, ok |-> ok, n |-> 0, token |-> 0,
   WaiterConfig |-> [Delay |-> 0, MaxAttempts |-> 0]]

MutationOps ==
  {"run_instances", "start", "stop", "terminate", "modify_instance_attribute",
   "modify_instance_metadata_options", "attach_network_interface",
   "associate_iam_instance_profile", "replace_iam_instance_profile_association",
   "create_tags", "delete_tags"}

\* The ids of a set in match order (the provider lists instances by id).
RECURSIVE IdSeq(_)
IdSeq(S) ==
  IF S = {} THEN <<>>
  ELSE LET m == CHOOSE x \in S : \A y \in S : x <= y
       IN <<m>> \o IdSeq(S \ {m})

Range(s) == {s[k] : k \in 1..Len(s)}

VARIABLES
  decl,       \* the declaration and run mode of the passes (never changes)
  params,     \* module.params of the running pass (run_instances may rewrite instance_type)
  inst,       \* the provider: id -> live instance record
  calls,      \* provider calls issued so far in the running pass
  pc,         \* position of the running pass
  ret,        \* where the running callee returns to
  he,         \* locals of handle_existing
  cis,        \* locals of change_instance_state
  esi,        \* locals of ensure_instance_state
  results,    \* enforce_count's pending results
  result,     \* what the pass hands to exit_json / fail_json
  pass,       \* number of the running pass
  first       \* what the previous pass returned and did

vars == <<decl, params, inst, calls, pc, ret, he, cis, esi, results, result, pass, first>>

\* ------------------------------------------------------------------ world
\* What the functions of the module thread through: the provider, the call log,
\* module.params, and whether fail_json (or an uncaught error) ended the pass.
\* out: the keyword arguments of the fail_json call.
NoOut == [msg |-> "", success |-> {}, failed |-> {}]
World(i, c, p) == [inst |-> i, calls |-> c, params |-> p, halted |-> FALSE, out |-> NoOut]

\* module.fail_json / fail_json_aws: the pass ends here.
fail_json(w, msg, success, failed) ==
  [w EXCEPT !.halted = TRUE, !.out = [msg |-> msg, success |-> success, failed |-> failed]]

Log(w, c) == [w EXCEPT !.calls = Append(@, c)]

\* The provider's verdicts for the calls of one step: the call kinds it rejects
\* and the waiters that run out of attempts.
CallKinds ==
  {"start", "stop", "terminate", "modify", "metadata", "attach", "profile", "tags", "run"}
Waiters ==
  {"instance_exists", "instance_status_ok", "instance_running", "instance_stopped",
   "instance_terminated"}
Verdict(f, s) == [fail |-> f, slow |-> s]
NoTrouble == Verdict({}, {})
\* At most one kind of call is rejected in a step: the first rejection ends the step.
Verdicts(kinds, waiters) ==
  {Verdict(f, s) : f \in {{}} \cup {{k} : k \in kinds}, s \in SUBSET waiters}

\* Tags are "key=value" strings; these are the ones with key Name.
TagPool == {"Name=web", "Name=db", "env=a"}
NameTags == {"Name=web", "Name=db"}

\* A filter handed to describe_instances: the ids it can return and the
\* instance-state-name values it lets through.  any: the dict has a key (is truthy).
\* The filters parameter left out (None) is Filter({}, {}).
Filter(ids, states) == [ids |-> ids, states |-> states, any |-> TRUE]

\* build_filters that leaves the state filter out for instance_ids.
build_filters_any_state(p) ==
  IF p.instance_ids /= {} THEN Filter(p.instance_ids, LiveStates \cup GoneStates)
  ELSE Filter(Ids, LiveStates)

\* build_filters: a filter derived from instance_ids, or from the network, name and
\* image options, carries the four live states; with a launch template and neither
\* name nor image the dict stays empty, and describe_instances without a filter
\* returns every instance.
instance_state_names == {"pending", "running", "stopping", "stopped"}
build_filters(p) ==
  IF p.instance_ids /= {} THEN Filter(p.instance_ids, instance_state_names)
  ELSE IF Truthy(p.launch_template) /\ ~Truthy(p.name) /\ p.tags \cap NameTags = {}
          /\ ~Truthy(p.image_id)
  THEN [Filter(Ids, LiveStates \cup GoneStates) EXCEPT !.any = FALSE]
  ELSE Filter(Ids, instance_state_names)

\* main: the caller's filters, or the derived ones when there are none.
main_filters(p) == IF p.filters = Filter({}, {}) THEN build_filters(p) ELSE p.filters

\* modify_instance_type's filter: one id, no state filter.
instance_id_filter(id) == Filter({id}, AllStates \ {"none"})

\* find_instances by filter: snapshots of the matching instances, in match order.
find_instances(w, filters) ==
  LET hit == {i \in filters.ids : w.inst[i].state \in filters.states}
      order == IdSeq(hit)
  IN [k \in 1..Len(order) |-> w.inst[order[k]]]

\* find_instances by ids.
find_instances_ids(w, ids) ==
  LET hit == {i \in ids : w.inst[i].state /= "none"}
      order == IdSeq(hit)
  IN [k \in 1..Len(order) |-> w.inst[order[k]]]

SnapIds(snaps) == {snaps[k].id : k \in 1..Len(snaps)}

\* ------------------------------------------------------------------ waiting
state_to_boto3_waiter(desired_module_state) ==
  CASE desired_module_state = "present" -> "instance_exists"
    [] desired_module_state = "started" -> "instance_status_ok"
    [] desired_module_state = "running" -> "instance_running"
    [] desired_module_state = "stopped" -> "instance_stopped"
    [] desired_module_state = "restarted" -> "instance_status_ok"
    [] desired_module_state = "rebooted" -> "instance_running"
    [] desired_module_state = "terminated" -> "instance_terminated"
    [] desired_module_state = "absent" -> "instance_terminated"

\* The WaiterConfig of await_instances: a poll every 15 seconds, wait_timeout // 15
\* times.
WaiterConfig(wait_timeout) == [Delay |-> 15, MaxAttempts |-> wait_timeout \div 15]

\* waiter_wait whose number of attempts is rounded up.
waiter_wait_rounding_up(w, ids, waiter, v) ==
  LET target == WaiterTarget(waiter)
      settled(i) == IF w.inst[i].state \in target THEN w.inst[i].state
                    ELSE Settle(w.inst[i].state)
      ok == (\A i \in ids : settled(i) \in target) /\ waiter \notin v.slow
      w1 == Log(w, [Call("wait", ids, waiter, "", ok)
                      EXCEPT !.WaiterConfig =
                               [Delay |-> 15,
                                MaxAttempts |-> (w.params.wait_timeout + 14) \div 15]])
  IN IF ok
     THEN [w1 EXCEPT !.inst = [i \in Ids |->
                                 IF i \in ids THEN [w.inst[i] EXCEPT !.state = settled(i)]
                                 ELSE w.inst[i]]]
     ELSE w1

\* waiter.wait: one call for all ids.  It succeeds when every id can settle in the
\* waiter's target and the attempts do not run out; a WaiterError is only warned about.
waiter_wait(w, ids, waiter, v) ==
  LET target == WaiterTarget(waiter)
      settled(i) == IF w.inst[i].state \in target THEN w.inst[i].state
                    ELSE Settle(w.inst[i].state)
      ok == (\A i \in ids : settled(i) \in target) /\ waiter \notin v.slow
      w1 == Log(w, [Call("wait", ids, waiter, "", ok)
                      EXCEPT !.WaiterConfig = WaiterConfig(w.params.wait_timeout)])
  IN IF ok
     THEN [w1 EXCEPT !.inst = [i \in Ids |->
                                 IF i \in ids THEN [w.inst[i] EXCEPT !.state = settled(i)]
                                 ELSE w.inst[i]]]
     ELSE w1

\* await_instances without the return in check mode.
await_instances_in_check_mode(w, ids, desired_module_state, force_wait, v) ==
  IF ~w.params.wait /\ ~force_wait THEN w
  ELSE waiter_wait(w, ids, state_to_boto3_waiter(desired_module_state), v)

await_instances(w, ids, desired_module_state, force_wait, v) ==
  IF ~w.params.wait /\ ~force_wait THEN w
  ELSE IF decl.check_mode THEN w
  ELSE waiter_wait(w, ids, state_to_boto3_waiter(desired_module_state), v)

\* ------------------------------------------------------------------ change_instance_state
ec2_instance_states(desired_module_state) ==
  CASE desired_module_state \in {"present", "started", "running", "restarted", "rebooted"}
         -> "running"
    [] desired_module_state = "stopped" -> "stopped"
    [] desired_module_state \in {"terminated", "absent"} -> "terminated"

\* The locals of change_instance_state before its loop.
cis_begin(w, filters, desired_module_state) ==
  LET instances == find_instances(w, filters)
      desired_ec2_state == ec2_instance_states(desired_module_state)
  IN [desired |-> desired_module_state,
      instances |-> instances,
      k |-> 1,
      changed |-> {},
      unchanged |-> {},
      to_change |-> {instances[j].id : j \in {j \in 1..Len(instances) :
                                                instances[j].state /= desired_ec2_state}},
      failure |-> FALSE]

\* lifecycle_call with the loop left at the first AnsibleEC2Error.
lifecycle_call_break(w, b, op, snap, v) ==
  IF op \in v.fail
  THEN [w |-> Log(w, Call(op, {snap.id}, "", snap.state, FALSE)),
        b |-> [b EXCEPT !.failure = TRUE, !.k = Len(b.instances) + 1]]
  ELSE [w |-> [Log(w, Call(op, {snap.id}, "", snap.state, TRUE))
                 EXCEPT !.inst[snap.id].state = AfterCall(op, @)],
        b |-> [b EXCEPT !.changed = @ \cup {snap.id}]]

\* start_instances / stop_instances / terminate_instances on one instance, inside the
\* loop's try: the ids of the response join changed; an AnsibleEC2Error is recorded
\* in failure_reason and the loop goes on.
lifecycle_call(w, b, op, snap, v) ==
  IF op \in v.fail
  THEN [w |-> Log(w, Call(op, {snap.id}, "", snap.state, FALSE)),
        b |-> [b EXCEPT !.failure = TRUE]]
  ELSE [w |-> [Log(w, Call(op, {snap.id}, "", snap.state, TRUE))
                 EXCEPT !.inst[snap.id].state = AfterCall(op, @)],
        b |-> [b EXCEPT !.changed = @ \cup {snap.id}]]

\* In check mode the instance is counted as changed and no call is made.
check_or_call(w, b, op, snap, v) ==
  IF decl.check_mode
  THEN [w |-> w, b |-> [b EXCEPT !.changed = @ \cup {snap.id}]]
  ELSE lifecycle_call(w, b, op, snap, v)

\* cis_terminate without the waits that come before the call.
cis_terminate_at_once(w, b, snap, v) == check_or_call(w, b, "terminate", snap, v)

\* The loop body for desired_ec2_state terminated: an instance leaves pending or
\* stopping before it is terminated.
cis_terminate(w, b, snap, v) ==
  LET w1 == IF snap.state = "stopping"
            THEN await_instances(w, {snap.id}, "stopped", TRUE, v)
            ELSE IF snap.state = "pending"
            THEN await_instances(w, {snap.id}, "running", TRUE, v)
            ELSE w
  IN check_or_call(w1, b, "terminate", snap, v)

\* cis_stop without a look at the observed state.
cis_stop_always(w, b, snap, v) == check_or_call(w, b, "stop", snap, v)

\* The loop body for desired_ec2_state stopped.
cis_stop(w, b, snap, v) ==
  IF snap.state = "pending"
  THEN check_or_call(await_instances(w, {snap.id}, "running", TRUE, v), b, "stop", snap, v)
  ELSE IF snap.state \in {"stopping", "stopped"}
  THEN [w |-> w, b |-> [b EXCEPT !.unchanged = @ \cup {snap.id}]]
  ELSE check_or_call(w, b, "stop", snap, v)

\* cis_start without a look at the observed state.
cis_start_always(w, b, snap, v) == check_or_call(w, b, "start", snap, v)

\* The loop body for desired_ec2_state running.
cis_start(w, b, snap, v) ==
  IF snap.state \in {"pending", "running"}
  THEN [w |-> w, b |-> [b EXCEPT !.unchanged = @ \cup {snap.id}]]
  ELSE LET w1 == IF snap.state = "stopping"
                 THEN await_instances(w, {snap.id}, "stopped", TRUE, v)
                 ELSE w
       IN check_or_call(w1, b, "start", snap, v)

\* One iteration of the loop over instances.
cis_iter(w, b0, v) ==
  LET snap == b0.instances[b0.k]
      desired_ec2_state == ec2_instance_states(b0.desired)
      b == [b0 EXCEPT !.k = @ + 1]
  IN CASE desired_ec2_state = "terminated" -> cis_terminate(w, b, snap, v)
       [] desired_ec2_state = "stopped" -> cis_stop(w, b, snap, v)
       [] desired_ec2_state = "running" -> cis_start(w, b, snap, v)

\* cis_end with the failed ids dropped.
cis_end_forgiving(w, b, v) ==
  [w |-> IF b.changed /= {}
         THEN await_instances(w, b.changed \cup b.unchanged, b.desired, FALSE, v)
         ELSE w,
   changed |-> b.changed,
   change_failed |-> {}]

\* After the loop: wait for the changed and unchanged ids, work out the failed ones.
cis_end(w, b, v) ==
  LET w1 == IF b.changed /= {}
            THEN await_instances(w, b.changed \cup b.unchanged, b.desired, FALSE, v)
            ELSE w
  IN [w |-> w1, changed |-> b.changed, change_failed |-> b.to_change \ b.changed]

\* The whole loop, for a batch run inside another step; r is what the iterations
\* so far made of the world and the locals.
RECURSIVE cis_loop(_, _)
cis_loop(r, v) ==
  IF r.b.k > Len(r.b.instances) THEN r
  ELSE cis_loop(cis_iter(r.w, r.b, v), v)

cis_return(r, v) == cis_end(r.w, r.b, v)

change_instance_state(w, filters, desired_module_state, v) ==
  cis_return(cis_loop([w |-> w, b |-> cis_begin(w, filters, desired_module_state)], v), v)

\* ------------------------------------------------------------------ ensure_instance_state
\* What ensure_instance_state returns: has_changed tells whether the dict has a
\* "changed" key at all (for state present it is empty).
StateResults(has, changed, msg, success) ==
  [has_changed |-> has, changed |-> changed, msg |-> msg, success |-> success]

\* The part of ensure_instance_state after a batch returned, for every state but the
\* restart pair: fail_json with both lists if anything failed, else the results.
esi_after(w, desired_module_state, r) ==
  CASE desired_module_state \in {"running", "started"} ->
         IF r.change_failed /= {}
         THEN [w |-> fail_json(w, "Unable to start instances", r.changed, r.change_failed),
               results |-> StateResults(FALSE, FALSE, "", {})]
         ELSE [w |-> w,
               results |-> StateResults(TRUE, r.changed /= {}, "Instances started", r.changed)]
    [] desired_module_state = "stopped" ->
         IF r.change_failed /= {}
         THEN [w |-> fail_json(w, "Unable to stop instances", r.changed, r.change_failed),
               results |-> StateResults(FALSE, FALSE, "", {})]
         ELSE [w |-> w,
               results |-> StateResults(TRUE, r.changed /= {}, "Instances stopped", r.changed)]
    [] desired_module_state \in {"absent", "terminated"} ->
         IF r.change_failed /= {}
         THEN [w |-> fail_json(w, "Unable to terminate instances", r.changed, r.change_failed),
               results |-> StateResults(FALSE, FALSE, "", {})]
         ELSE [w |-> w,
               results |-> StateResults(TRUE, r.changed /= {}, "Instances terminated", r.changed)]

\* The restart pair, after its first batch (towards stopped).
esi_after_stop(w, r) ==
  IF r.change_failed /= {}
  THEN fail_json(w, "Unable to stop instances", r.changed, r.change_failed)
  ELSE w

\* The restart pair, after its second batch; changed1 is the first batch's verdict.
esi_after_restart(w, changed1, r) ==
  IF r.change_failed /= {}
  THEN [w |-> fail_json(w, "Unable to restart instances", r.changed, r.change_failed),
        results |-> StateResults(FALSE, FALSE, "", {})]
  ELSE [w |-> w,
        results |-> StateResults(TRUE, changed1 \/ r.changed /= {}, "Instances restarted",
                                 r.changed)]

esi_after_restart_of(r2, changed1) == esi_after_restart(r2.w, changed1, r2)

\* The second batch of the restart pair, given the first batch's return r1 and the
\* world w1 after its failure check.
esi_restart(w1, r1, desired_module_state, filters, v) ==
  IF w1.halted THEN [w |-> w1, results |-> StateResults(FALSE, FALSE, "", {})]
  ELSE esi_after_restart_of(change_instance_state(w1, filters, desired_module_state, v),
                            r1.changed /= {})

\* ensure_instance_state after its first (or only) batch returned r.
esi_rest(r, desired_module_state, filters, v) ==
  IF desired_module_state \in {"restarted", "rebooted"}
  THEN esi_restart(esi_after_stop(r.w, r), r, desired_module_state, filters, v)
  ELSE esi_after(r.w, desired_module_state, r)

\* ensure_instance_state run inside another step.
ensure_instance_state(w, desired_module_state, filters, v) ==
  IF desired_module_state = "present"
  THEN [w |-> w, results |-> StateResults(FALSE, FALSE, "", {})]
  ELSE esi_rest(change_instance_state(w, filters,
                                      IF desired_module_state \in {"restarted", "rebooted"}
                                      THEN "stopped" ELSE desired_module_state, v),
                desired_module_state, filters, v)

\* ------------------------------------------------------------------ attributes
\* A pair of a world and a changed flag, as the attribute handlers return it.
WB(w, changed) == [w |-> w, changed |-> changed]

NameTag(name) == CASE name = "web" -> "Name=web" [] name = "db" -> "Name=db"
\* dict.update({"Name": name})
with_name(tags, name) == (tags \ NameTags) \cup {NameTag(name)}

\* ensure_ec2_tags (module_utils): nothing without tags, no call in check mode.
ensure_ec2_tags(w, id, has_tags, tags, purge_tags, v) ==
  IF ~has_tags THEN WB(w, FALSE)
  ELSE LET cur == w.inst[id].tags
           to_set == tags \ cur
           to_unset == IF purge_tags THEN cur \ tags ELSE {}
       IN IF to_set = {} /\ to_unset = {} THEN WB(w, FALSE)
          ELSE IF decl.check_mode THEN WB(w, TRUE)
          ELSE IF "tags" \in v.fail
          THEN WB(fail_json(Log(w, Call(IF to_unset /= {} THEN "delete_tags" ELSE "create_tags",
                                        {id}, "", "", FALSE)),
                            "Failed to update tags", {}, {}), FALSE)
          ELSE LET w1 == IF to_unset /= {} THEN Log(w, Call("delete_tags", {id}, "", "", TRUE))
                         ELSE w
                   w2 == IF to_set /= {} THEN Log(w1, Call("create_tags", {id}, "", "", TRUE))
                         ELSE w1
               IN WB([w2 EXCEPT !.inst[id].tags = (cur \ to_unset) \cup to_set], TRUE)

\* The metadata options are compared as one value: every option has a default, so a
\* declared metadata_options always carries all of them.
change_instance_metadata_options(w, instance, v) ==
  LET metadata_options_to_apply == w.params.metadata_options
      existing_metadata_options == instance.meta
  IN IF metadata_options_to_apply = None THEN WB(w, FALSE)
     ELSE IF existing_metadata_options = metadata_options_to_apply THEN WB(w, FALSE)
     ELSE IF decl.check_mode THEN WB(w, TRUE)
     ELSE IF "metadata" \in v.fail
     THEN WB(fail_json(Log(w, Call("modify_instance_metadata_options", {instance.id},
                                   metadata_options_to_apply, "", FALSE)),
                       "Failed to update instance metadata options", {}, {}), FALSE)
     ELSE WB([Log(w, Call("modify_instance_metadata_options", {instance.id},
                          metadata_options_to_apply, "", TRUE))
                EXCEPT !.inst[instance.id].meta = metadata_options_to_apply], TRUE)

\* describe_instance_attribute: the live value, not the snapshot's.
describe_instance_attribute(w, id, instance_key) ==
  CASE instance_key = "EbsOptimized" -> w.inst[id].ebs
    [] instance_key = "DisableApiTermination" -> w.inst[id].tprot
    [] instance_key = "InstanceType" -> w.inst[id].itype
    [] instance_key = "Groups" -> w.inst[id].groups

param_mappings ==
  << [param_key |-> "ebs_optimized", instance_key |-> "EbsOptimized"],
     [param_key |-> "termination_protection", instance_key |-> "DisableApiTermination"],
     [param_key |-> "instance_type", instance_key |-> "InstanceType"] >>

\* module.params.get that returns the instance type for every key.
params_get_instance_type(p, param_key) == p.instance_type

params_get(p, param_key) ==
  CASE param_key = "ebs_optimized" -> p.ebs_optimized
    [] param_key = "termination_protection" -> p.termination_protection
    [] param_key = "instance_type" -> p.instance_type

\* One entry of the list diff_instance_and_params returns.
Change(id, key, value) == [InstanceId |-> id, key |-> key, value |-> value]

\* get_ec2_security_group_ids_from_names (module_utils): names to group ids.
discover_security_groups(groups) ==
  CASE groups = "web-sg" -> "sg-1"
    [] groups = "db-sg" -> "sg-2"
    [] OTHER -> groups

diff_instance_and_params(w, instance, skip) ==
  LET p == w.params
      id_ == instance.id
      mapped(m) ==
        IF params_get(p, m.param_key) = None THEN <<>>
        ELSE IF m.instance_key \in skip THEN <<>>
        ELSE IF describe_instance_attribute(w, id_, m.instance_key) /= params_get(p, m.param_key)
        THEN << Change(id_, m.instance_key, params_get(p, m.param_key)) >>
        ELSE <<>>
      network_interfaces == p.network_interfaces
      groups0 == IF Len(network_interfaces) > 0 THEN network_interfaces[1].groups ELSE None
      groups1 == IF Truthy(groups0) THEN groups0
                 ELSE IF Truthy(p.security_groups) THEN p.security_groups
                 ELSE p.security_group
      grouped ==
        IF Len(network_interfaces) > 0 \/ Truthy(p.security_groups) \/ Truthy(p.security_group)
        THEN IF Len(network_interfaces) > 1 \/ Cardinality(instance.nics) > 1
             THEN <<>>
             ELSE IF Truthy(groups1)
                     /\ describe_instance_attribute(w, id_, "Groups")
                          /= discover_security_groups(groups1)
             THEN << Change(id_, "Groups", discover_security_groups(groups1)) >>
             ELSE <<>>
        ELSE <<>>
      source_dest_check == p.source_dest_check
      checked ==
        IF source_dest_check /= None /\ instance.sdc /= source_dest_check
        THEN << Change(id_, "SourceDestCheck", source_dest_check) >>
        ELSE <<>>
  IN mapped(param_mappings[1]) \o mapped(param_mappings[2]) \o mapped(param_mappings[3])
       \o grouped \o checked

\* modify_instance_attribute (module_utils): the provider takes the new value.
apply_attribute(w, c) ==
  LET w1 == Log(w, Call("modify_instance_attribute", {c.InstanceId}, c.key, "", TRUE))
  IN CASE c.key = "EbsOptimized" -> [w1 EXCEPT !.inst[c.InstanceId].ebs = c.value]
       [] c.key = "DisableApiTermination" -> [w1 EXCEPT !.inst[c.InstanceId].tprot = c.value]
       [] c.key = "InstanceType" -> [w1 EXCEPT !.inst[c.InstanceId].itype = c.value]
       [] c.key = "Groups" -> [w1 EXCEPT !.inst[c.InstanceId].groups = c.value]
       [] c.key = "SourceDestCheck" -> [w1 EXCEPT !.inst[c.InstanceId].sdc = c.value]

\* The except branch of modify_ec2_instance_attribute around either kind of change.
modify_instance_attribute(w, c, v) ==
  IF "modify" \in v.fail
  THEN fail_json(Log(w, Call("modify_instance_attribute", {c.InstanceId}, c.key, "", FALSE)),
                 "Could not apply change to existing instance.", {}, {})
  ELSE apply_attribute(w, c)

\* modify_instance_type after the type was modified in world w3: ensure the state.
mit_ensure(w3, state, instance_id, v) ==
  IF w3.halted THEN w3
  ELSE ensure_instance_state(w3, IF state = "present" THEN "running" ELSE state,
                             instance_id_filter(instance_id), v).w

\* modify_instance_type after the instance was ensured stopped in world w1: the
\* forced wait for stopped, then the modification.
mit_modify(w1, state, instance_id, c, v) ==
  IF w1.halted THEN w1
  ELSE mit_ensure(modify_instance_attribute(
                    await_instances(w1, {instance_id}, "stopped", TRUE, v), c, v),
                  state, instance_id, v)

\* modify_instance_type that modifies the type of the instance as it is.
modify_instance_type_at_once(w, state, instance_id, c, v) ==
  modify_instance_attribute(w, c, v)

modify_instance_type(w, state, instance_id, c, v) ==
  mit_modify(ensure_instance_state(w, "stopped", instance_id_filter(instance_id), v).w,
             state, instance_id, c, v)

\* The loop of modify_ec2_instance_attribute from change k on.
RECURSIVE apply_changes(_, _, _, _, _)
apply_changes(w, state, changes, k, v) ==
  IF k > Len(changes) \/ w.halted THEN w
  ELSE apply_changes(IF changes[k].key = "InstanceType"
                     THEN modify_instance_type(w, state, changes[k].InstanceId, changes[k], v)
                     ELSE modify_instance_attribute(w, changes[k], v),
                     state, changes, k + 1, v)

modify_ec2_instance_attribute(w, state, changes, v) ==
  IF ~decl.check_mode THEN apply_changes(w, state, changes, 1, v) ELSE w

\* determine_iam_arn_from_name (module_utils): an ARN is returned as it is.
determine_iam_arn_from_name(name) ==
  CASE name = "role-a" -> "arn-a"
    [] name = "role-b" -> "arn-b"
    [] OTHER -> name

add_or_update_instance_profile(w, instance, desired_profile_name, v) ==
  LET instance_profile_setting == instance.profile
      call(op) ==
        IF "profile" \in v.fail
        THEN WB(fail_json(Log(w, Call(op, {instance.id}, desired_profile_name, "", FALSE)),
                          "Could not associate instance profile", {}, {}), FALSE)
        ELSE WB([Log(w, Call(op, {instance.id}, desired_profile_name, "", TRUE))
                   EXCEPT !.inst[instance.id].profile =
                            determine_iam_arn_from_name(desired_profile_name)], TRUE)
  IN IF Truthy(instance_profile_setting) /\ Truthy(desired_profile_name)
     THEN IF desired_profile_name = instance_profile_setting THEN WB(w, FALSE)
          ELSE IF instance_profile_setting = determine_iam_arn_from_name(desired_profile_name)
          THEN WB(w, FALSE)
          ELSE call("replace_iam_instance_profile_association")
     ELSE IF ~Truthy(instance_profile_setting) /\ Truthy(desired_profile_name)
     THEN call("associate_iam_instance_profile")
     ELSE WB(w, FALSE)

\* The attach loop of change_network_attachments, in the order of new_enis.
RECURSIVE attach_enis(_, _, _, _, _, _)
attach_enis(w, instance, new_enis, to_attach, k, v) ==
  IF k > Len(new_enis) \/ w.halted THEN w
  ELSE LET eni_id == new_enis[k]
           w1 == IF eni_id \in to_attach
                 THEN IF "attach" \in v.fail
                      THEN fail_json(Log(w, Call("attach_network_interface", {instance.id},
                                                 eni_id, "", FALSE)),
                                     "Could not attach interface", {}, {})
                      ELSE [Log(w, Call("attach_network_interface", {instance.id}, eni_id, "",
                                        TRUE))
                              EXCEPT !.inst[instance.id].nics = @ \cup {eni_id}]
                 ELSE w
       IN attach_enis(w1, instance, new_enis, to_attach, k + 1, v)

change_network_attachments(w, instance, v) ==
  LET new_enis == w.params.network_interfaces_ids
  IN IF Len(new_enis) = 0 THEN WB(w, FALSE)
     ELSE LET to_attach == Range(new_enis) \ instance.nics
              w1 == IF ~decl.check_mode
                    THEN attach_enis(w, instance, new_enis, to_attach, 1, v)
                    ELSE w
          IN WB(w1, to_attach /= {})

\* ------------------------------------------------------------------ handle_existing
\* The tags handle_existing passes on: name is injected as the Name tag, and an
\* undeclared tags with a name means purge_tags = False.
he_has_tags(p) == p.has_tags \/ Truthy(p.name)
he_tags(p) == IF Truthy(p.name) THEN with_name(IF p.has_tags THEN p.tags ELSE {}, p.name)
              ELSE p.tags
he_purge_tags(p) == IF Truthy(p.name) /\ ~p.has_tags THEN FALSE ELSE p.purge_tags

\* What an iteration of handle_existing's loop hands on: the world, changed so far,
\* and the iteration's changes.
HeIter(w, changed, changes) == [w |-> w, changed |-> changed, changes |-> changes]

\* changed |= change_network_attachments(...)
he_attach(r, changed, changes) == HeIter(r.w, changed \/ r.changed, changes)

\* changed |= add_or_update_instance_profile(...), then the network attachments
he_profile(r, instance, changed, changes, v) ==
  IF r.w.halted THEN HeIter(r.w, FALSE, <<>>)
  ELSE he_attach(change_network_attachments(r.w, instance, v), changed \/ r.changed, changes)

\* after modify_ec2_instance_attribute left world w: changed |= bool(changes), then
\* the instance profile
he_modified(w, instance, changed, changes, v) ==
  IF w.halted THEN HeIter(w, FALSE, <<>>)
  ELSE he_profile(add_or_update_instance_profile(w, instance, w.params.iam_instance_profile,
                                                 v),
                  instance, changed \/ Len(changes) > 0, changes, v)

\* changes = diff_instance_and_params(...); modify_ec2_instance_attribute(changes)
he_diffed(w, instance, state, changed, changes, v) ==
  he_modified(modify_ec2_instance_attribute(w, state, changes, v), instance, changed,
              changes, v)

\* changed |= change_instance_metadata_options(...), then the diff
he_metadata(r, instance, state, changed, v) ==
  IF r.w.halted THEN HeIter(r.w, FALSE, <<>>)
  ELSE he_diffed(r.w, instance, state, changed \/ r.changed,
                 diff_instance_and_params(r.w, instance, {}), v)

\* changed |= ensure_ec2_tags(...), then the metadata options
he_tagged(r, instance, state, v) ==
  IF r.w.halted THEN HeIter(r.w, FALSE, <<>>)
  ELSE he_metadata(change_instance_metadata_options(r.w, instance, v), instance, state,
                   r.changed, v)

\* One iteration of the loop over existing_matches.
he_iter(w, instance, state, v) ==
  he_tagged(ensure_ec2_tags(w, instance.id, he_has_tags(w.params), he_tags(w.params),
                            he_purge_tags(w.params), v),
            instance, state, v)

\* ------------------------------------------------------------------ results
NoSpec == [ClientToken |-> 0, MinCount |-> 0, MaxCount |-> 0, InstanceType |-> None]

\* A result dict: keys are the keys it has; the other fields hold their values.
NoResult ==
  [keys |-> {}, failed |-> FALSE, changed |-> FALSE, msg |-> "", instance_ids |-> {},
   changed_ids |-> {}, terminated_ids |-> {}, success |-> {}, failed_ids |-> {},
   spec |-> NoSpec, changes |-> <<>>]

\* The output of fail_json.
FailResult(w) ==
  [NoResult EXCEPT !.keys = {"failed", "msg"}, !.failed = TRUE, !.msg = w.out.msg,
                   !.success = w.out.success, !.failed_ids = w.out.failed]

\* ------------------------------------------------------------------ creation
\* uuid.uuid4().hex: a value that differs between passes and, within a pass, between
\* two points with a provider call in between.
uuid4(w) == (MaxPass + 1) * Len(w.calls) + pass

\* validate_network_params, validate_assign_public_ip included.  An interface is
\* [groups, assign_public_ip, private_ip_address, private_ip_addresses, ipv6_addresses];
\* private_ip_addresses lists the primary flag of each address.
validate_network_params(w, nb_instances) ==
  LET network_interfaces == w.params.network_interfaces
      network_interfaces_ids == w.params.network_interfaces_ids
      N == Len(network_interfaces)
      primaries(inty) ==
        Cardinality({a \in 1..Len(inty.private_ip_addresses) : inty.private_ip_addresses[a]})
  IN IF /\ N + Len(network_interfaces_ids) > 1
        /\ \E k \in 1..N : network_interfaces[k].assign_public_ip = "True"
     THEN fail_json(w, "The option 'assign_public_ip' cannot be set to true with multiple network interfaces.",
                    {}, {})
     ELSE IF \E k \in 1..N : primaries(network_interfaces[k]) > 1
     THEN fail_json(w, "Only one primary private IP address can be specified when creating network interface.",
                    {}, {})
     ELSE IF nb_instances > 1 /\ \E k \in 1..N : Truthy(network_interfaces[k].private_ip_address)
     THEN fail_json(w, "The option 'private_ip_address' cannot be specified when launching more than one instance.",
                    {}, {})
     ELSE IF nb_instances > 1 /\ \E k \in 1..N : Len(network_interfaces[k].private_ip_addresses) > 0
     THEN fail_json(w, "The option 'private_ip_addresses' cannot be specified when launching more than one instance.",
                    {}, {})
     ELSE IF nb_instances > 1 /\ \E k \in 1..N : Len(network_interfaces[k].ipv6_addresses) > 0
     THEN fail_json(w, "The option 'ipv6_addresses' cannot be specified when launching more than one instance.",
                    {}, {})
     ELSE w

\* build_run_instance_spec: the creation request, or the validation failure.
build_run_instance_spec(w, current_count) ==
  LET p == w.params
      nb_instances == IF TruthyInt(p.exact_count) THEN p.exact_count - current_count
                      ELSE IF TruthyInt(p.count) THEN p.count ELSE 1
      spec == [ClientToken |-> uuid4(w), MinCount |-> nb_instances, MaxCount |-> nb_instances,
               InstanceType |-> p.instance_type]
  IN IF ~Truthy(p.image_id) /\ ~Truthy(p.launch_template)
     THEN [w |-> fail_json(w, "You must include an image_id or image.id parameter", {}, {}),
           spec |-> NoSpec]
     ELSE IF validate_network_params(w, nb_instances).halted
     THEN [w |-> validate_network_params(w, nb_instances), spec |-> NoSpec]
     ELSE IF ~(Truthy(p.instance_type) \/ Truthy(p.launch_template))
     THEN [w |-> fail_json(w, "At least one of 'instance_type' and 'launch_template'", {}, {}),
           spec |-> NoSpec]
     ELSE [w |-> w, spec |-> spec]

\* What the provider answers to one creation call.
RunOutcomes == {"ok", "InsufficientInstanceCapacity", "Invalid IAM Instance Profile ARN", "other"}

FreeIds(w) == {i \in Ids : w.inst[i].state = "none"}

\* The instance type a launch template without instance_type launches.
TemplateType == "t3.micro"

\* run_ec2_instances accepted: the provider hands out the n lowest free ids.
launch(w, spec, instance_type, n) ==
  LET p == w.params
      new == {i \in FreeIds(w) : Cardinality({j \in FreeIds(w) : j < i}) < n}
      fresh(i) ==
        [id |-> i, state |-> "pending", launch |-> MaxTime + pass,
         itype |-> IF Truthy(instance_type) THEN instance_type ELSE TemplateType,
         ebs |-> IF p.ebs_optimized /= None THEN p.ebs_optimized ELSE "False",
         tprot |-> IF p.termination_protection /= None THEN p.termination_protection
                   ELSE "False",
         groups |-> IF Truthy(p.security_groups) THEN discover_security_groups(p.security_groups)
                    ELSE IF Truthy(p.security_group)
                    THEN discover_security_groups(p.security_group)
                    ELSE "sg-1",
         sdc |-> "True",
         nics |-> IF Len(p.network_interfaces_ids) > 0 THEN Range(p.network_interfaces_ids)
                  ELSE {"eni-0"},
         meta |-> IF p.metadata_options /= None THEN p.metadata_options ELSE "optional",
         profile |-> IF Truthy(p.iam_instance_profile)
                     THEN determine_iam_arn_from_name(p.iam_instance_profile) ELSE None,
         tags |-> IF Truthy(p.name) THEN with_name(p.tags, p.name) ELSE p.tags]
  IN [w |-> [w EXCEPT !.inst = [i \in Ids |-> IF i \in new THEN fresh(i) ELSE w.inst[i]]],
      ids |-> new]

\* A creation call that draws a token of its own.
run_call_fresh_token(w, spec, instance_type, outcome) ==
  Log(w, [Call("run_instances", {}, instance_type, outcome, outcome = "ok")
            EXCEPT !.n = spec.MinCount, !.token = uuid4(w)])

\* One creation call: an entry of the log with the candidate type and the token.
run_call(w, spec, instance_type, outcome) ==
  Log(w, [Call("run_instances", {}, instance_type, outcome, outcome = "ok")
            EXCEPT !.n = spec.MinCount, !.token = spec.ClientToken])

\* run_ec2_instances without the update of module.params.
run_succeeded_forgetful(w, spec, instance_type, i) ==
  launch(w, spec, instance_type, spec.MinCount)

\* run_ec2_instances returned for candidate i: past the first candidate the launched
\* type replaces module.params["instance_type"].
run_succeeded(w, spec, instance_type, i) ==
  launch(IF i > 1 THEN [w EXCEPT !.params.instance_type = instance_type] ELSE w,
         spec, instance_type, spec.MinCount)

\* The loop of run_instances without the retry: the invalid-IAM-profile error sends
\* it on to the next candidate.
RECURSIVE run_instances_from_without_retry(_, _, _, _, _, _)
run_instances_from_without_retry(w, spec, instance_types_to_try, i, n, ro) ==
  LET raise(w0, e) == [w |-> fail_json(w0, e, {}, {}), ids |-> {}]
      K == Len(instance_types_to_try)
  IN IF i > K THEN raise(w, None)
     ELSE LET w1 == run_call(w, spec, instance_types_to_try[i], ro[n + 1])
          IN CASE ro[n + 1] = "ok" -> run_succeeded(w1, spec, instance_types_to_try[i], i)
               [] ro[n + 1] \in {"Invalid IAM Instance Profile ARN",
                                 "InsufficientInstanceCapacity"} /\ i < K ->
                    run_instances_from_without_retry(w1, spec, instance_types_to_try, i + 1,
                                                     n + 1, ro)
               [] OTHER -> raise(w1, ro[n + 1])

\* The loop of run_instances with every error of a first attempt but the
\* invalid-IAM-profile one handled as capacity exhaustion.
RECURSIVE run_instances_from_tolerant(_, _, _, _, _, _)
run_instances_from_tolerant(w, spec, instance_types_to_try, i, n, ro) ==
  LET raise(w0, e) == [w |-> fail_json(w0, e, {}, {}), ids |-> {}]
      K == Len(instance_types_to_try)
  IN IF i > K THEN raise(w, None)
     ELSE LET instance_type == instance_types_to_try[i]
              w1 == run_call(w, spec, instance_type, ro[n + 1])
          IN CASE ro[n + 1] = "ok" -> run_succeeded(w1, spec, instance_type, i)
               [] ro[n + 1] = "Invalid IAM Instance Profile ARN" ->
                    LET w2 == run_call(w1, spec, instance_type, ro[n + 2])
                    IN CASE ro[n + 2] = "ok" -> run_succeeded(w2, spec, instance_type, i)
                         [] ro[n + 2] = "InsufficientInstanceCapacity" /\ i < K ->
                              run_instances_from_tolerant(w2, spec, instance_types_to_try,
                                                          i + 1, n + 2, ro)
                         [] OTHER -> raise(w2, ro[n + 2])
               [] OTHER ->
                    IF i < K
                    THEN run_instances_from_tolerant(w1, spec, instance_types_to_try, i + 1,
                                                     n + 1, ro)
                    ELSE raise(w1, ro[n + 1])

\* The loop of run_instances from candidate i on; ro lists the provider's answers to
\* the creation calls in the order they are issued, n counts the calls issued.
RECURSIVE run_instances_from(_, _, _, _, _, _)
run_instances_from(w, spec, instance_types_to_try, i, n, ro) ==
  LET raise(w0, e) == [w |-> fail_json(w0, e, {}, {}), ids |-> {}]
      K == Len(instance_types_to_try)
  IN IF i > K
     \* raise last_error: reached only when nothing was tried, and last_error is None
     THEN raise(w, None)
     ELSE LET instance_type == instance_types_to_try[i]
              w1 == run_call(w, spec, instance_type, ro[n + 1])
              succeed(w0) == run_succeeded(w0, spec, instance_type, i)
          IN CASE ro[n + 1] = "ok" -> succeed(w1)
               [] ro[n + 1] = "Invalid IAM Instance Profile ARN" ->
                    LET w2 == run_call(w1, spec, instance_type, ro[n + 2])
                    IN CASE ro[n + 2] = "ok" -> succeed(w2)
                         [] ro[n + 2] = "InsufficientInstanceCapacity" ->
                              IF i < K
                              THEN run_instances_from(w2, spec, instance_types_to_try, i + 1,
                                                      n + 2, ro)
                              ELSE raise(w2, ro[n + 2])
                         [] OTHER -> raise(w2, ro[n + 2])
               [] ro[n + 1] = "InsufficientInstanceCapacity" ->
                    IF i < K
                    THEN run_instances_from(w1, spec, instance_types_to_try, i + 1, n + 1, ro)
                    ELSE raise(w1, ro[n + 1])
               [] OTHER -> raise(w1, ro[n + 1])

\* run_instances that goes back to the primary type once every candidate was
\* rejected at its first call.
run_instances_once_more(w, spec, ro) ==
  LET cand == <<spec.InstanceType>> \o w.params.alternate_instance_types
      again(r) ==
        IF r.w.halted /\ Len(cand) > 1 /\ Len(r.w.calls) = Len(w.calls) + Len(cand)
        THEN run_instances_from([r.w EXCEPT !.halted = FALSE, !.out = NoOut], spec,
                                <<cand[1]>>, 1, Len(cand), ro)
        ELSE r
  IN again(run_instances_from(w, spec, cand, 1, 0, ro))

\* run_instances that returns no instance where it should raise.
run_instances_swallowing(w, spec, ro) ==
  LET r == run_instances_from(w, spec,
                              <<spec.InstanceType>> \o w.params.alternate_instance_types,
                              1, 0, ro)
  IN [w |-> [r.w EXCEPT !.halted = FALSE, !.out = NoOut], ids |-> r.ids]

\* run_instances with the alternates tried before the primary type.
run_instances_alternates_first(w, spec, ro) ==
  run_instances_from(w, spec, w.params.alternate_instance_types \o <<spec.InstanceType>>,
                     1, 0, ro)

run_instances(w, spec, ro) ==
  LET primary_instance_type == spec.InstanceType
      instance_types_to_try ==
        (IF Truthy(primary_instance_type) THEN <<primary_instance_type>> ELSE <<>>)
          \o w.params.alternate_instance_types
  IN run_instances_from(w, spec, instance_types_to_try, 1, 0, ro)

\* The loop of ensure_present over the new instances: their diff is applied.
RECURSIVE ep_modify(_, _, _, _, _)
ep_modify(w, instances, k, desired_module_state, v) ==
  IF k > Len(instances) \/ w.halted THEN w
  ELSE LET changes == diff_instance_and_params(w, instances[k], {"UserData", "EbsOptimized"})
       IN ep_modify(modify_ec2_instance_attribute(w, desired_module_state, changes, v),
                    instances, k + 1, desired_module_state, v)

\* ensure_present after the new instances were modified in world w2: the wait for
\* the declared state unless wait is off, and the result.
ep_return(w2, existing_matches, instance_ids, desired_module_state, spec, v) ==
  IF w2.halted THEN [w |-> w2, results |-> NoResult]
  ELSE [w |-> IF w2.params.wait
              THEN await_instances(w2, instance_ids, desired_module_state, FALSE, v)
              ELSE w2,
        results |-> [NoResult EXCEPT
                       !.keys = (IF w2.params.wait THEN {"instances"} ELSE {})
                                  \cup {"changed", "instance_ids", "spec"}
                                  \cup (IF Len(existing_matches) > 0 THEN {"changed_ids"}
                                        ELSE {}),
                       !.changed = TRUE,
                       !.changed_ids = IF Len(existing_matches) > 0 THEN instance_ids ELSE {},
                       !.instance_ids = SnapIds(existing_matches) \cup instance_ids,
                       !.spec = spec]]

\* ensure_present after run_instances returned r: the forced wait for the new
\* instances to exist, then their modification.
ep_launched(r, existing_matches, desired_module_state, spec, v) ==
  IF r.w.halted THEN [w |-> r.w, results |-> NoResult]
  ELSE ep_return(ep_modify(await_instances(r.w, r.ids, "present", TRUE, v),
                           find_instances_ids(r.w, r.ids), 1, desired_module_state, v),
                 existing_matches, r.ids, desired_module_state, spec, v)

\* ensure_present after build_run_instance_spec returned b.
ep_built(b, existing_matches, desired_module_state, v, ro) ==
  IF b.w.halted THEN [w |-> b.w, results |-> NoResult]
  ELSE IF decl.check_mode
  THEN [w |-> b.w,
        results |-> [NoResult EXCEPT
                       !.keys = IF Len(existing_matches) > 0
                                THEN {"changed", "instance_ids", "instances", "spec", "msg"}
                                ELSE {"changed", "spec", "msg"},
                       !.changed = TRUE, !.instance_ids = SnapIds(existing_matches),
                       !.spec = b.spec,
                       !.msg = "Would have launched instances if not in check_mode."]]
  ELSE ep_launched(run_instances(b.w, b.spec, ro), existing_matches, desired_module_state,
                   b.spec, v)

\* ensure_present that reports a validation failure after a creation call.
ensure_present_validating_late(w, existing_matches, desired_module_state, current_count, v, ro) ==
  IF build_run_instance_spec(w, current_count).w.halted
  THEN [w |-> fail_json(run_call(w, NoSpec, w.params.instance_type, "ok"),
                        build_run_instance_spec(w, current_count).w.out.msg, {}, {}),
        results |-> NoResult]
  ELSE ep_built(build_run_instance_spec(w, current_count), existing_matches,
                desired_module_state, v, ro)

\* ensure_present; current_count is 0 when main calls it.
ensure_present(w, existing_matches, desired_module_state, current_count, v, ro) ==
  ep_built(build_run_instance_spec(w, current_count), existing_matches, desired_module_state,
           v, ro)

\* ------------------------------------------------------------------ the pass, step by step
\* The part of the state a pass works on, as one record.
Cur ==
  [inst |-> inst, calls |-> calls, params |-> params, pc |-> pc, ret |-> ret, he |-> he,
   cis |-> cis, esi |-> esi, results |-> results, result |-> result]

WorldOf(S) == World(S.inst, S.calls, S.params)

Put(S, w) == [S EXCEPT !.inst = w.inst, !.calls = w.calls, !.params = w.params]

\* fail_json was called: the pass leaves with the failure output.
Failed(S, w) == [Put(S, w) EXCEPT !.pc = "exit", !.result = FailResult(w)]

Return(S, r) == [S EXCEPT !.pc = "exit", !.result = r]

NoHe == [matches |-> <<>>, k |-> 1, changed |-> FALSE, changes |-> <<>>, altered |-> {}]
NoCis ==
  [desired |-> "present", instances |-> <<>>, k |-> 1, changed |-> {}, unchanged |-> {},
   to_change |-> {}, failure |-> FALSE]
NoEsi == [state |-> "present", phase |-> 0, changed1 |-> FALSE]

\* ensure_instance_state's dict as a result.
state_result(sr) ==
  [NoResult EXCEPT !.keys = IF sr.has_changed
                            THEN {"msg", "success", "failed_ids", "changed", "instances"}
                            ELSE {},
                   !.changed = sr.changed, !.msg = sr.msg, !.success = sr.success]

\* The end of handle_existing: {**state_results, **alter_config_result}.
he_result(h, sr) ==
  [NoResult EXCEPT !.keys = {"changed", "instances", "instance_ids", "changes"}
                              \cup (IF sr.has_changed THEN {"msg", "success", "failed_ids"}
                                    ELSE {}),
                   !.changed = h.changed \/ sr.changed,
                   !.instance_ids = h.altered,
                   !.changes = h.changes,
                   !.msg = sr.msg,
                   !.success = sr.success]

\* What enforce_count returns when the count already matches.
ec_equal_result(S, r) ==
  IF r.changed THEN r
  ELSE [NoResult EXCEPT !.keys = {"changed", "instances", "instance_ids", "msg"},
                        !.instance_ids = SnapIds(S.he.matches),
                        !.msg = "instances already in the desired state, nothing to do."]

\* handle_existing returns hr to its caller, the second entry of the return stack.
he_done(S, hr) ==
  CASE S.ret[2] = "main" -> Return(S, hr)
    [] S.ret[2] = "enforce_count_equal" -> Return(S, ec_equal_result(S, hr))
    [] S.ret[2] = "enforce_count_tail" -> Return(S, IF hr.changed THEN hr ELSE S.results)

\* ensure_instance_state returns sr to its caller, the head of the return stack.
esi_done(S, sr) ==
  CASE S.ret[1] = "main" -> Return(S, state_result(sr))
    [] S.ret[1] = "enforce_count_equal" -> Return(S, ec_equal_result(S, state_result(sr)))
    [] S.ret[1] = "handle_existing" -> he_done(S, he_result(S.he, sr))

\* begin_esi whose restart pair starts with the declared state instead of stopped.
begin_esi_without_stop(S, desired_module_state, retstack) ==
  LET S1 == [S EXCEPT !.ret = retstack]
      restart == desired_module_state \in {"restarted", "rebooted"}
  IN IF desired_module_state = "present"
     THEN esi_done(S1, StateResults(FALSE, FALSE, "", {}))
     ELSE [S1 EXCEPT !.esi = [state |-> desired_module_state,
                              phase |-> IF restart THEN 1 ELSE 0,
                              changed1 |-> FALSE],
                     !.cis = cis_begin(WorldOf(S), main_filters(S.params),
                                       desired_module_state),
                     !.pc = "change_instance_state"]

\* The call of ensure_instance_state(desired_module_state, filters) by the caller
\* named first on retstack.
begin_esi(S, desired_module_state, retstack) ==
  LET S1 == [S EXCEPT !.ret = retstack]
      restart == desired_module_state \in {"restarted", "rebooted"}
  IN IF desired_module_state = "present"
     THEN esi_done(S1, StateResults(FALSE, FALSE, "", {}))
     ELSE [S1 EXCEPT !.esi = [state |-> desired_module_state,
                              phase |-> IF restart THEN 1 ELSE 0,
                              changed1 |-> FALSE],
                     !.cis = cis_begin(WorldOf(S), main_filters(S.params),
                                       IF restart THEN "stopped" ELSE desired_module_state),
                     !.pc = "change_instance_state"]

\* The call of handle_existing(existing_matches, state, filters).
begin_he(S, existing_matches, retstack) ==
  [S EXCEPT !.he = [NoHe EXCEPT !.matches = existing_matches],
            !.ret = retstack,
            !.pc = "handle_existing"]

\* main up to the call it dispatches to.
main_step ==
  LET existing_matches == IF main_filters(params).any
                          THEN find_instances(WorldOf(Cur), main_filters(params))
                          ELSE <<>>
      state == params.state
      S == [Cur EXCEPT !.he = [NoHe EXCEPT !.matches = existing_matches]]
  IN CASE state \in {"terminated", "absent"} ->
            IF Len(existing_matches) > 0
            THEN begin_esi(S, state, <<"main">>)
            ELSE Return(S, [NoResult EXCEPT !.keys = {"msg", "changed"},
                                            !.msg = "No matching instances found"])
       [] state \notin {"terminated", "absent"} /\ TruthyInt(params.exact_count) ->
            [S EXCEPT !.pc = "enforce_count"]
       [] state \notin {"terminated", "absent"} /\ ~TruthyInt(params.exact_count)
          /\ Len(existing_matches) > 0 /\ ~TruthyInt(params.count) ->
            begin_he(S, existing_matches, <<"main">>)
       [] OTHER -> [S EXCEPT !.pc = "ensure_present"]

\* The state after an iteration of handle_existing's loop returned r.
\* he_next that leaves the loop after the first instance.
he_next_impatient(r) ==
  IF r.w.halted THEN Failed(Cur, r.w)
  ELSE [Put(Cur, r.w) EXCEPT !.he.k = Len(he.matches) + 1,
                             !.he.changed = @ \/ r.changed,
                             !.he.changes = r.changes]

he_next(r) ==
  IF r.w.halted THEN Failed(Cur, r.w)
  ELSE [Put(Cur, r.w) EXCEPT !.he.k = @ + 1,
                             !.he.changed = @ \/ r.changed,
                             !.he.changes = r.changes]

\* One iteration of handle_existing's loop.
he_step(v) == he_next(he_iter(WorldOf(Cur), he.matches[he.k], params.state, v))

\* handle_existing after its loop: describe the altered instances, then drive the
\* whole batch to the declared state.
he_finish ==
  LET altered == find_instances_ids(WorldOf(Cur), SnapIds(he.matches))
  IN begin_esi([Cur EXCEPT !.he.altered = SnapIds(altered)], params.state,
               <<"handle_existing">> \o ret)

cis_next(r) == [Put(Cur, r.w) EXCEPT !.cis = r.b]

\* One iteration of change_instance_state's loop.
cis_step(v) == cis_next(cis_iter(WorldOf(Cur), cis, v))

\* The state after ensure_instance_state checked a batch's return: a is the world
\* and the results.
esi_checked(a) ==
  IF a.w.halted THEN Failed(Cur, a.w) ELSE esi_done(Put(Cur, a.w), a.results)

\* The state after the first batch of the restart pair returned r and left w1.
esi_second(w1, r) ==
  IF w1.halted THEN Failed(Cur, w1)
  ELSE [Put(Cur, w1) EXCEPT !.esi.phase = 2,
                            !.esi.changed1 = r.changed /= {},
                            !.cis = cis_begin(w1, main_filters(w1.params), esi.state)]

\* ensure_instance_state's handling of what a batch returned.
esi_returned(r) ==
  CASE esi.phase = 1 -> esi_second(esi_after_stop(r.w, r), r)
    [] esi.phase = 2 -> esi_checked(esi_after_restart(r.w, esi.changed1, r))
    [] OTHER -> esi_checked(esi_after(r.w, esi.state, r))

\* change_instance_state after its loop.
cis_finish(v) == esi_returned(cis_end(WorldOf(Cur), cis, v))

\* sorted(existing_matches, key=LaunchTime): stable, least recent first.
RECURSIVE insert_by_launch(_, _)
insert_by_launch(x, s) ==
  IF s = <<>> THEN <<x>>
  ELSE IF s[Len(s)].launch <= x.launch THEN Append(s, x)
  ELSE Append(insert_by_launch(x, SubSeq(s, 1, Len(s) - 1)), s[Len(s)])

RECURSIVE sorted_by_launch_upto(_, _)
sorted_by_launch_upto(s, n) ==
  IF n = 0 THEN <<>> ELSE insert_by_launch(s[n], sorted_by_launch_upto(s, n - 1))

sorted_by_launch(s) == sorted_by_launch_upto(s, Len(s))

\* terminate_ids without the sort by launch time.
terminate_ids_unsorted(existing_matches, to_terminate) ==
  {existing_matches[k].id : k \in 1..to_terminate}

\* The ids enforce_count picks for termination.
terminate_ids(existing_matches, to_terminate) ==
  LET by_launch == sorted_by_launch(existing_matches)
  IN {by_launch[k].id : k \in 1..to_terminate}

\* ec_shrink that reports, in check mode, the first matches instead of the oldest.
ec_shrink_unsorted_preview(w, existing_matches, exact_count, v) ==
  LET to_terminate == Len(existing_matches) - exact_count
      victims == terminate_ids(existing_matches, to_terminate)
      res(ids, keys, msg) ==
        [NoResult EXCEPT !.keys = keys, !.changed = TRUE, !.terminated_ids = ids,
                         !.instance_ids = SnapIds(existing_matches), !.msg = msg]
  IN IF decl.check_mode
     THEN [w |-> w,
           results |-> res(terminate_ids_unsorted(existing_matches, to_terminate),
                           {"changed", "terminated_ids", "instance_ids", "msg"},
                           "Would have terminated following instances if not in check mode")]
     ELSE IF "terminate" \in v.fail
     THEN [w |-> fail_json(Log(w, Call("terminate", victims, "", "", FALSE)),
                           "Unable to terminate instances", {}, {}),
           results |-> NoResult]
     ELSE [w |-> await_instances(
                   [Log(w, Call("terminate", victims, "", "", TRUE))
                      EXCEPT !.inst = [i \in Ids |->
                                         IF i \in victims
                                         THEN [w.inst[i] EXCEPT
                                                 !.state = AfterCall("terminate", @)]
                                         ELSE w.inst[i]]],
                   victims, "terminated", TRUE, v),
           results |-> res(victims, {"changed", "terminated_ids", "instance_ids", "msg",
                                     "instances"},
                           "Successfully terminated instances.")]

\* The terminate branch of enforce_count.
ec_shrink(w, existing_matches, exact_count, v) ==
  LET to_terminate == Len(existing_matches) - exact_count
      victims == terminate_ids(existing_matches, to_terminate)
      res(keys, msg) ==
        [NoResult EXCEPT !.keys = keys, !.changed = TRUE, !.terminated_ids = victims,
                         !.instance_ids = SnapIds(existing_matches), !.msg = msg]
  IN IF decl.check_mode
     THEN [w |-> w,
           results |-> res({"changed", "terminated_ids", "instance_ids", "msg"},
                           "Would have terminated following instances if not in check mode")]
     ELSE IF "terminate" \in v.fail
     THEN [w |-> fail_json(Log(w, Call("terminate", victims, "", "", FALSE)),
                           "Unable to terminate instances", {}, {}),
           results |-> NoResult]
     ELSE LET w1 == [Log(w, Call("terminate", victims, "", "", TRUE))
                       EXCEPT !.inst = [i \in Ids |->
                                          IF i \in victims
                                          THEN [w.inst[i] EXCEPT
                                                  !.state = AfterCall("terminate", @)]
                                          ELSE w.inst[i]]]
              w2 == await_instances(w1, victims, "terminated", TRUE, v)
          IN [w |-> w2,
              results |-> res({"changed", "terminated_ids", "instance_ids", "msg",
                               "instances"},
                              "Successfully terminated instances.")]

\* enforce_count up to the call of handle_existing (or its return in check mode).
enforce_count_step(v, ro) ==
  LET w == WorldOf(Cur)
      desired_module_state == params.state
      existing_matches == he.matches
      exact_count == params.exact_count
      current_count == Len(existing_matches)
      tail(r) ==
        IF r.w.halted THEN Failed(Cur, r.w)
        ELSE IF decl.check_mode THEN Return(Put(Cur, r.w), r.results)
        ELSE begin_he([Put(Cur, r.w) EXCEPT !.results = r.results],
                      find_instances(r.w, main_filters(r.w.params)), <<"enforce_count_tail">>)
  IN IF current_count = exact_count
     THEN IF desired_module_state \notin {"absent", "terminated"}
          THEN begin_he(Cur, existing_matches, <<"enforce_count_equal">>)
          ELSE begin_esi(Cur, desired_module_state, <<"enforce_count_equal">>)
     ELSE IF current_count < exact_count
     THEN tail(ensure_present(w, existing_matches, desired_module_state, current_count, v, ro))
     ELSE tail(ec_shrink(w, existing_matches, exact_count, v))

\* main after ensure_present returned r.
ep_returned(r) ==
  IF r.w.halted THEN Failed(Cur, r.w) ELSE Return(Put(Cur, r.w), r.results)

\* main's call of ensure_present.
ensure_present_step(v, ro) ==
  ep_returned(ensure_present(WorldOf(Cur), he.matches, params.state, 0, v, ro))

\* ------------------------------------------------------------------ inputs
\* An id the provider has not handed out, and the attributes a plain instance has.
BaseInst(i) ==
  [id |-> i, state |-> "none", launch |-> 0, itype |-> "t3.micro", ebs |-> "False",
   tprot |-> "False", groups |-> "sg-1", sdc |-> "True", nics |-> {"eni-0"},
   meta |-> "optional", profile |-> None, tags |-> {}]

\* The declaration with every option at its default, in normal (not check) mode.
BaseDecl ==
  [state |-> "present", check_mode |-> FALSE, wait |-> TRUE, exact_count |-> NoneInt,
   count |-> NoneInt, instance_type |-> "t3.micro", alternate_instance_types |-> <<>>,
   launch_template |-> None, image_id |-> "ami-1", ebs_optimized |-> None,
   termination_protection |-> None, security_groups |-> None, security_group |-> None,
   source_dest_check |-> None, network_interfaces |-> <<>>,
   network_interfaces_ids |-> <<>>, metadata_options |-> None,
   iam_instance_profile |-> None, has_tags |-> FALSE, tags |-> {}, purge_tags |-> TRUE,
   name |-> None, instance_ids |-> {}, filters |-> Filter({}, {}), wait_timeout |-> 600]

NoFirst == [failed |-> FALSE, changed |-> FALSE, mutated |-> FALSE]

\* The state after the module is constructed for declaration d against provider i.
Start(d, i) ==
  /\ decl = d
  /\ params = d
  /\ inst = i
  /\ calls = <<>>
  /\ pc = "main"
  /\ ret = <<>>
  /\ he = NoHe
  /\ cis = NoCis
  /\ esi = NoEsi
  /\ results = NoResult
  /\ result = NoResult
  /\ pass = 1
  /\ first = NoFirst

\* Providers whose existing instances are the ids 1..n, each in a state of States
\* with a launch time of Times, and otherwise plain.
Providers(States, Times) ==
  {i \in [Ids -> {[BaseInst(1) EXCEPT !.state = s, !.launch = t] :
                    s \in States \cup {"none"}, t \in Times}] :
     \A k \in Ids :
       /\ i[k].state = "none" => i[k].launch = CHOOSE t \in Times : TRUE
       /\ k > 1 /\ i[k].state /= "none" => i[k - 1].state /= "none"}

WithIds(i) == [k \in Ids |-> [i[k] EXCEPT !.id = k]]

\* ------------------------------------------------------------------ actions
Apply(S) ==
  /\ inst' = S.inst
  /\ calls' = S.calls
  /\ params' = S.params
  /\ pc' = S.pc
  /\ ret' = S.ret
  /\ he' = S.he
  /\ cis' = S.cis
  /\ esi' = S.esi
  /\ results' = S.results
  /\ result' = S.result
  /\ UNCHANGED <<decl, pass, first>>

LifecycleVerdicts ==
  Verdicts({"start", "stop", "terminate"}, {"instance_running", "instance_stopped"})
EndVerdicts ==
  {Verdict({}, s) : s \in {{}, {"instance_status_ok", "instance_running", "instance_stopped",
                                 "instance_terminated"}}}
AttributeVerdicts ==
  {Verdict(f, s) : f \in {{}} \cup {{k} : k \in {"start", "stop", "modify", "metadata",
                                                 "attach", "profile", "tags"}},
                   s \in {{}, {"instance_running", "instance_stopped", "instance_status_ok"}}}
CreateVerdicts ==
  {Verdict(f, s) : f \in {{}, {"terminate"}},
                   s \in {{}, {"instance_exists"},
                          {"instance_running", "instance_stopped", "instance_status_ok",
                           "instance_terminated"}}}

\* The provider's answers to the creation calls of one run_instances, in the order
\* the calls are issued: at most two calls for each candidate. A call is answered
\* only when it is issued, so the answers past the one that ends the loop are fixed.
RunAnswers ==
  LET N == 2 * (Len(params.alternate_instance_types) + 1)
  IN {ro \in [1..N -> RunOutcomes] :
        \A k \in 1..N : ro[k] \in {"ok", "other"} => \A j \in (k + 1)..N : ro[j] = "ok"}

\* The pool of ids bounds what can be launched.
CanLaunch(n) == Cardinality({i \in Ids : inst[i].state = "none"}) >= n

main ==
  /\ pc = "main"
  /\ Apply(main_step)

handle_existing ==
  /\ pc = "handle_existing"
  /\ he.k <= Len(he.matches)
  /\ \E v \in AttributeVerdicts : Apply(he_step(v))

handle_existing_end ==
  /\ pc = "handle_existing"
  /\ he.k > Len(he.matches)
  /\ Apply(he_finish)

change_instance_state_loop ==
  /\ pc = "change_instance_state"
  /\ cis.k <= Len(cis.instances)
  /\ \E v \in LifecycleVerdicts : Apply(cis_step(v))

change_instance_state_end ==
  /\ pc = "change_instance_state"
  /\ cis.k > Len(cis.instances)
  /\ \E v \in EndVerdicts : Apply(cis_finish(v))

enforce_count ==
  /\ pc = "enforce_count"
  /\ CanLaunch(params.exact_count - Len(he.matches))
  /\ \E v \in CreateVerdicts, ro \in RunAnswers : Apply(enforce_count_step(v, ro))

ensure_present_call ==
  /\ pc = "ensure_present"
  /\ CanLaunch(IF TruthyInt(params.count) THEN params.count ELSE 1)
  /\ \E v \in CreateVerdicts, ro \in RunAnswers : Apply(ensure_present_step(v, ro))

\* module.exit_json / the exit of fail_json.
exit_json ==
  /\ pc = "exit"
  /\ pc' = "done"
  /\ UNCHANGED <<decl, params, inst, calls, ret, he, cis, esi, results, result, pass, first>>

\* A provider call was rejected or a waiter ran out of attempts.
Troubled(cs) == \E k \in 1..Len(cs) : ~cs[k].ok

\* A provider mutation call was issued.
Mutated(cs) == \E k \in 1..Len(cs) : cs[k].op \in MutationOps

\* The next pass: the same declaration against the provider as the pass left it.
\* Passes are run in sequence as long as the provider caused no trouble.
next_pass ==
  /\ pc = "done"
  /\ pass < MaxPass
  /\ ~result.failed
  /\ ~Troubled(calls)
  /\ pass' = pass + 1
  /\ first' = [failed |-> result.failed, changed |-> result.changed,
               mutated |-> Mutated(calls)]
  /\ params' = decl
  /\ calls' = <<>>
  /\ pc' = "main"
  /\ ret' = <<>>
  /\ he' = NoHe
  /\ cis' = NoCis
  /\ esi' = NoEsi
  /\ results' = NoResult
  /\ result' = NoResult
  /\ UNCHANGED <<decl, inst>>

\* ------------------------------------------------------------------ specifications
\* Lifecycle: every target state, in both modes, with and without waiting, against
\* every population of up to MaxInst instances in the live states.
Init ==
  \E d \in {[BaseDecl EXCEPT !.state = s, !.check_mode = c, !.wait = wt] :
              s \in ModuleStates, c \in BOOLEAN, wt \in BOOLEAN},
     i \in Providers(LiveStates, {1}) :
    Start(d, WithIds(i))

Next ==
  \/ main
  \/ handle_existing
  \/ handle_existing_end
  \/ change_instance_state_loop
  \/ change_instance_state_end
  \/ ensure_present_call
  \/ exit_json

Spec == Init /\ [][Next]_vars

\* The same passes run MaxPass times in sequence.
NextTwice == Next \/ next_pass

SpecTwice == Init /\ [][NextTwice]_vars

\* Exact count: a declared exact_count of 0..MaxCount against every population of up
\* to MaxInst instances with launch times 1..MaxTime.
InitCount ==
  \E d \in {[BaseDecl EXCEPT !.state = s, !.check_mode = c, !.wait = wt, !.exact_count = e] :
              s \in {"present", "running", "stopped"}, c \in BOOLEAN, wt \in BOOLEAN,
              e \in 0..MaxCount},
     i \in Providers(LiveStates, 1..MaxTime) :
    Start(d, WithIds(i))

NextCount ==
  \/ main
  \/ enforce_count
  \/ handle_existing
  \/ handle_existing_end
  \/ change_instance_state_loop
  \/ change_instance_state_end
  \/ ensure_present_call
  \/ exit_json

SpecCount == InitCount /\ [][NextCount]_vars

\* Attributes: declarations that state one mutable attribute, or all of them, against
\* plain instances.
AttrDecls ==
  LET all == [BaseDecl EXCEPT !.instance_type = "t3.large", !.termination_protection = "True",
                              !.ebs_optimized = "True", !.source_dest_check = "False",
                              !.security_groups = "db-sg", !.metadata_options = "required",
                              !.iam_instance_profile = "role-a",
                              !.network_interfaces_ids = <<"eni-1">>,
                              !.has_tags = TRUE, !.tags = {"env=a"}, !.name = "web"]
  IN {BaseDecl, all,
      [BaseDecl EXCEPT !.instance_type = "t3.large"],
      [BaseDecl EXCEPT !.termination_protection = "True"],
      [BaseDecl EXCEPT !.security_groups = "db-sg"],
      [BaseDecl EXCEPT !.source_dest_check = "False"],
      [BaseDecl EXCEPT !.metadata_options = "required"],
      [BaseDecl EXCEPT !.iam_instance_profile = "role-a"],
      [BaseDecl EXCEPT !.network_interfaces_ids = <<"eni-1">>],
      [BaseDecl EXCEPT !.has_tags = TRUE, !.tags = {"env=a"}],
      [BaseDecl EXCEPT !.name = "web"]}

InitAttr ==
  \E a \in AttrDecls, s \in {"present", "running", "stopped"}, c \in BOOLEAN,
     wt \in BOOLEAN, i \in Providers({"pending", "running", "stopped"}, {1}) :
    Start([a EXCEPT !.state = s, !.check_mode = c, !.wait = wt], WithIds(i))

SpecAttr == InitAttr /\ [][Next]_vars

\* Creation with alternates: declarations that list up to MaxAlt distinct alternate
\* instance types after the primary type t3.micro, with and without an exact count,
\* against every population of running or stopped instances of the primary type.
AlternateLists ==
  {a \in UNION {[1..n -> {"t3.small", "t3.large"}] : n \in 0..MaxAlt} :
     \A j, k \in DOMAIN a : j /= k => a[j] /= a[k]}

InitRetry ==
  \E d \in {[BaseDecl EXCEPT !.state = s, !.wait = wt, !.exact_count = e,
                              !.alternate_instance_types = a] :
              s \in {"present", "stopped"}, wt \in BOOLEAN, e \in {NoneInt} \cup 1..MaxCount,
              a \in AlternateLists},
     i \in Providers({"running", "stopped"}, {1}) :
    Start(d, WithIds(i))

SpecRetry == InitRetry /\ [][NextCount]_vars

\* Creation requests: declarations with and without an image, a launch template, an
\* instance type, alternates and a count or an exact count, with no network
\* interface, one interface with two primary private addresses, or one with a single
\* private address, for state present and stopped, against every population of
\* running or stopped instances.
CreateDecls ==
  LET interface(addresses) ==
        [groups |-> None, assign_public_ip |-> None, private_ip_address |-> None,
         private_ip_addresses |-> addresses, ipv6_addresses |-> <<>>]
  IN {[BaseDecl EXCEPT !.image_id = im, !.launch_template = lt, !.instance_type = it,
                       !.alternate_instance_types = a, !.count = n[1], !.exact_count = n[2],
                       !.network_interfaces = ni, !.check_mode = c, !.state = s] :
        s \in {"present", "stopped"}, im \in {None, "ami-1"}, lt \in {None, "lt-1"}, it \in {None, "t3.micro"},
        a \in {<<>>, <<"t3.small", "t3.large">>},
        n \in {<<NoneInt, NoneInt>>, <<MaxCount, NoneInt>>, <<NoneInt, MaxCount>>},
        ni \in {<<>>, <<interface(<<TRUE, TRUE>>)>>, <<interface(<<FALSE>>)>>},
        c \in BOOLEAN}

InitCreate ==
  \E d \in CreateDecls, i \in Providers({"running", "stopped"}, {1}) : Start(d, WithIds(i))

SpecCreate == InitCreate /\ [][NextCount]_vars

\* Matching: declarations with derived filters, with instance_ids 1 and 2, or with
\* filters of the caller that name no instance state, against every population of
\* running, stopped, shutting-down and terminated instances.
InitMatch ==
  \E d \in {[BaseDecl EXCEPT !.state = s, !.check_mode = c, !.instance_ids = ids,
                              !.filters = f] :
              s \in {"running", "stopped", "terminated"}, c \in BOOLEAN,
              ids \in {{}, {1, 2}},
              f \in {Filter({}, {}), Filter(Ids, LiveStates \cup GoneStates)}},
     i \in Providers({"running", "stopped"} \cup GoneStates, {1}) :
    Start(d, WithIds(i))

SpecMatch == InitMatch /\ [][Next]_vars

\* Security groups: declarations that name the groups at the top level or on a
\* network interface, list no, one or two interfaces and no or one interface id
\* (security_groups and network_interfaces_ids exclude each other), against running
\* instances that have one or two network interfaces.
InitGroups ==
  LET interface(groups) ==
        [groups |-> groups, assign_public_ip |-> None, private_ip_address |-> None,
         private_ip_addresses |-> <<>>, ipv6_addresses |-> <<>>]
  IN \E sg \in {None, "db-sg"}, s \in {"present", "stopped"}, c \in BOOLEAN,
        ni \in {<<>>, <<interface("db-sg")>>, <<interface("db-sg"), interface(None)>>},
        ids \in {<<>>, <<"eni-1">>},
        i \in Providers({"running"}, {1}),
        n \in [Ids -> {{"eni-0"}, {"eni-0", "eni-1"}}] :
       /\ sg /= None => ids = <<>>
       /\ \A k \in Ids : i[k].state = "none" => n[k] = {"eni-0"}
       /\ Start([BaseDecl EXCEPT !.security_groups = sg, !.state = s, !.check_mode = c,
                                 !.network_interfaces = ni, !.network_interfaces_ids = ids],
                [k \in Ids |-> [WithIds(i)[k] EXCEPT !.nics = n[k]]])

SpecGroups == InitGroups /\ [][Next]_vars

\* Waiting: declarations with a wait_timeout around the multiples of the poll delay,
\* for every state that makes the module wait.
WaitTimeouts == {0, 14, 15, 16, 44, 45, 600}

InitWait ==
  \E d \in {[BaseDecl EXCEPT !.state = s, !.wait = wt, !.wait_timeout = t] :
              s \in ModuleStates, wt \in BOOLEAN, t \in WaitTimeouts},
     i \in Providers({"pending", "running", "stopped"}, {1}) :
    Start(d, WithIds(i))

SpecWait == InitWait /\ [][Next]_vars

\* ------------------------------------------------------------------ claims
\* C1: in check mode no provider mutation call is issued on any path of a pass (no
\* create, start, stop, terminate, modify-attribute, modify-metadata-options,
\* attach-network-interface, associate or replace of an IAM instance profile).
\* add_or_update_instance_profile never looks at check_mode, so this fails.
C1_CheckModeIssuesNoMutation ==
  decl.check_mode =>
    \A k \in 1..Len(calls) :
      calls[k].op \notin {"run_instances", "start", "stop", "terminate",
                          "modify_instance_attribute", "modify_instance_metadata_options",
                          "attach_network_interface", "associate_iam_instance_profile",
                          "replace_iam_instance_profile_association"}

\* C2: a second pass with the same declaration, against the provider as the first
\* pass left it, returns changed = false and issues no mutation call.  Stated for the
\* declarations that are not in check mode and do not ask for a restart; it fails
\* for them too, because the second pass meets the instances still in transition.
C2_SecondPassChangesNothing ==
  pass > 1 /\ pc = "done" /\ ~decl.check_mode /\ decl.state \notin {"restarted", "rebooted"}
    => ~result.failed /\ ~result.changed /\ ~Mutated(calls)

\* C3: with exact_count E >= 0 declared and every provider call succeeding, after one
\* pass outside check mode the number of matched instances that are not
\* shutting-down or terminated is E.  A declared 0 is falsy in main's dispatch, so
\* this fails for E = 0.
C3_ExactCountConverges ==
  pc = "done" /\ ~decl.check_mode /\ decl.exact_count /= NoneInt /\ ~Troubled(calls)
    => Cardinality({i \in Ids : inst[i].state \in LiveStates}) = decl.exact_count

\* C4: when the matched population P exceeds exact_count E, exactly P - E instances
\* are picked for termination, all of them matched, and each of them was launched no
\* later than every matched instance that is kept.  The pick is read off the
\* terminate call, off enforce_count's pending results and off the returned result.
C4_OldestAreTerminated ==
  LET existing == {i \in Ids : inst[i].state /= "none"}
      Oldest(victims) ==
        /\ victims \subseteq existing
        /\ Cardinality(victims) = Cardinality(existing) - decl.exact_count
        /\ \A x \in victims, r \in existing \ victims : inst[x].launch <= inst[r].launch
  IN /\ \A k \in 1..Len(calls) : calls[k].op = "terminate" => Oldest(calls[k].ids)
     /\ "terminated_ids" \in results.keys => Oldest(results.terminated_ids)
     /\ "terminated_ids" \in result.keys => Oldest(result.terminated_ids)

\* C4's case: a victim that comes later in match order than an instance that is kept
\* and was launched before it.
C4_Witness ==
  \E k \in 1..Len(calls) :
    /\ calls[k].op = "terminate"
    /\ calls[k].ok
    /\ \E x \in calls[k].ids, r \in Ids \ calls[k].ids :
         /\ inst[r].state \in LiveStates
         /\ x > r
         /\ inst[x].launch < inst[r].launch

\* C5: when the matched population P is below exact_count E and the provider accepts
\* every call, the creation request has MinCount = MaxCount = E - P, exactly E - P
\* instances are created, and the pass returns changed = true.  The count is right;
\* the pass fails afterwards when the new instances are still pending.
C5_GrowCreatesTheDifference ==
  pc = "done" /\ ~decl.check_mode /\ TruthyInt(decl.exact_count) /\ ~Troubled(calls)
    => \A k \in 1..Len(calls) :
         calls[k].op = "run_instances" =>
           LET created == {i \in Ids : inst[i].state /= "none" /\ inst[i].launch > MaxTime}
               P == Cardinality({i \in Ids : inst[i].state /= "none"}) - Cardinality(created)
           IN /\ calls[k].n = decl.exact_count - P
              /\ Cardinality(created) = decl.exact_count - P
              /\ ~result.failed
              /\ result.changed

\* C6: outside check mode, the terminate call of an instance observed in stopping
\* comes right after a wait for stopped on that instance, and the terminate call of
\* an instance observed in pending right after a wait for running on it.
C6_TerminateAfterWait ==
  \A k \in 1..Len(calls) :
    calls[k].op = "terminate" /\ calls[k].obs \in {"stopping", "pending"} =>
      /\ k > 1
      /\ calls[k - 1].op = "wait"
      /\ calls[k - 1].ids = calls[k].ids
      /\ calls[k - 1].arg = (IF calls[k].obs = "stopping" THEN "instance_stopped"
                             ELSE "instance_running")

\* C6's case: one batch terminated an instance seen stopping and one seen pending.
C6_Witness ==
  /\ \E k \in 2..Len(calls) :
       calls[k].op = "terminate" /\ calls[k].obs = "stopping" /\ calls[k - 1].op = "wait"
  /\ \E k \in 2..Len(calls) :
       calls[k].op = "terminate" /\ calls[k].obs = "pending" /\ calls[k - 1].op = "wait"

\* C7: with desired state stopped, an instance observed in stopping or stopped gets
\* no stop call and never enters the changed set, and an instance observed in
\* pending gets its stop call right after a wait for running on it.
C7_StopRule ==
  /\ \A k \in 1..Len(calls) :
       calls[k].op = "stop" =>
         /\ calls[k].obs \notin {"stopping", "stopped"}
         /\ calls[k].obs = "pending" =>
              /\ k > 1
              /\ calls[k - 1].op = "wait"
              /\ calls[k - 1].ids = calls[k].ids
              /\ calls[k - 1].arg = "instance_running"
  /\ ec2_instance_states(cis.desired) = "stopped" =>
       \A j \in 1..Len(cis.instances) :
         cis.instances[j].state \in {"stopping", "stopped"} =>
           cis.instances[j].id \notin cis.changed

\* C7's case: a finished batch towards stopped that left an instance seen stopping
\* alone and stopped one seen pending.
C7_Witness ==
  /\ pc = "change_instance_state"
  /\ cis.k > Len(cis.instances)
  /\ ec2_instance_states(cis.desired) = "stopped"
  /\ \E j \in 1..Len(cis.instances) :
       cis.instances[j].state = "stopping" /\ cis.instances[j].id \in cis.unchanged
  /\ \E k \in 2..Len(calls) :
       calls[k].op = "stop" /\ calls[k].obs = "pending" /\ calls[k - 1].op = "wait"

\* C8: with desired state running or started, an instance observed in pending or
\* running gets no start call, and an instance observed in stopping gets its start
\* call right after a wait for stopped on it.
C8_RunRule ==
  \A k \in 1..Len(calls) :
    calls[k].op = "start" =>
      /\ calls[k].obs \notin {"pending", "running"}
      /\ calls[k].obs = "stopping" =>
           /\ k > 1
           /\ calls[k - 1].op = "wait"
           /\ calls[k - 1].ids = calls[k].ids
           /\ calls[k - 1].arg = "instance_stopped"

\* C8's case: a finished batch towards running that left an instance seen running
\* alone and started one seen stopping.
C8_Witness ==
  /\ pc = "change_instance_state"
  /\ cis.k > Len(cis.instances)
  /\ cis.desired \in {"running", "started"}
  /\ \E j \in 1..Len(cis.instances) :
       cis.instances[j].state = "running" /\ cis.instances[j].id \in cis.unchanged
  /\ \E k \in 2..Len(calls) :
       calls[k].op = "start" /\ calls[k].obs = "stopping" /\ calls[k - 1].op = "wait"

\* C9: a pass towards stopped whose matched instances are all stopping or stopped,
\* and a pass towards running whose matched instances are all pending or running,
\* ends without failure, with changed = false and an empty failed list.  An instance
\* still in transition is counted in to_change and never in changed, so this fails.
C9_NoOpIsNotAFailure ==
  /\ pc = "done"
  /\ Len(he.matches) > 0
  /\ \/ /\ decl.state = "stopped"
        /\ \A j \in 1..Len(he.matches) : he.matches[j].state \in {"stopping", "stopped"}
     \/ /\ decl.state \in {"running", "started"}
        /\ \A j \in 1..Len(he.matches) : he.matches[j].state \in {"pending", "running"}
  => ~result.failed /\ ~result.changed /\ result.failed_ids = {}

\* C10: outside check mode, every instance the batch loop has passed and whose
\* observed state calls for a start, stop or terminate has had that call issued,
\* whatever the provider answered to the calls of the instances before it.
C10_BatchGoesOn ==
  pc = "change_instance_state" /\ ~decl.check_mode =>
    \A j \in 1..(cis.k - 1) :
      LET snap == cis.instances[j]
          target == ec2_instance_states(cis.desired)
          op == CASE target = "terminated" -> "terminate"
                  [] target = "stopped" -> "stop"
                  [] target = "running" -> "start"
          due == CASE target = "terminated" -> TRUE
                   [] target = "stopped" -> snap.state \notin {"stopping", "stopped"}
                   [] target = "running" -> snap.state \notin {"pending", "running"}
      IN due => \E k \in 1..Len(calls) : calls[k].op = op /\ calls[k].ids = {snap.id}

\* C10's case: a finished batch in which a call was rejected and the same call was
\* issued afterwards for another instance.
C10_Witness ==
  /\ pc = "change_instance_state"
  /\ cis.k > Len(cis.instances)
  /\ \E k1 \in 1..Len(calls), k2 \in 1..Len(calls) :
       /\ k1 < k2
       /\ calls[k1].op \in {"start", "stop", "terminate"}
       /\ ~calls[k1].ok
       /\ calls[k2].op = calls[k1].op
       /\ calls[k2].ids /= calls[k1].ids

C12_WaitTimeoutIsAWarning ==
  /\ pc = "done"
  /\ \A k \in 1..Len(calls) : calls[k].op /= "wait" => calls[k].ok
  /\ \E k \in 2..Len(calls) :
       /\ calls[k].op = "wait"
       /\ ~calls[k].ok
       /\ \E j \in 1..(k - 1) :
            /\ calls[j].op \in {"start", "stop", "terminate"}
            /\ calls[j].ids \subseteq calls[k].ids
  => ~result.failed /\ result.changed

\* C13: with wait = false declared, no provider wait is performed anywhere in the
\* pass.  The waits the code forces (force_wait) are performed all the same.
C13_NoWaitWhenWaitIsOff ==
  ~decl.wait => \A k \in 1..Len(calls) : calls[k].op /= "wait"

\* C14: in check mode no provider wait is performed, forced or not.
C14_NoWaitInCheckMode ==
  decl.check_mode => \A k \in 1..Len(calls) : calls[k].op /= "wait"

\* C14's case: in check mode, a batch towards terminated has passed an instance seen
\* stopping, for which the wait for stopped is forced.
C14_Witness ==
  /\ decl.check_mode
  /\ pc = "change_instance_state"
  /\ ec2_instance_states(cis.desired) = "terminated"
  /\ \E j \in 1..Len(cis.instances) :
       /\ j < cis.k
       /\ cis.instances[j].state = "stopping"
       /\ cis.instances[j].id \in cis.changed

\* C15: the creation calls of a pass go through the candidates in order, the primary
\* type first and then the alternates as declared: the first call is for the primary
\* type, a call that follows another is either for the same candidate after the
\* invalid-IAM-profile error or for the next candidate after capacity exhaustion, and
\* no call follows an accepted one.
C15_CandidateOrder ==
  LET cand == <<decl.instance_type>> \o decl.alternate_instance_types
      runs == {k \in 1..Len(calls) : calls[k].op = "run_instances"}
      pos(t) == CHOOSE j \in 1..Len(cand) : cand[j] = t
  IN \A k \in runs :
       /\ calls[k].arg \in Range(cand)
       /\ (\A j \in runs : j >= k) => calls[k].arg = cand[1]
       /\ \A j \in runs :
            j < k /\ (\A m \in runs : ~(j < m /\ m < k)) =>
              /\ ~calls[j].ok
              /\ \/ /\ calls[j].obs = "InsufficientInstanceCapacity"
                    /\ pos(calls[k].arg) = pos(calls[j].arg) + 1
                 \/ /\ calls[j].obs = "Invalid IAM Instance Profile ARN"
                    /\ calls[k].arg = calls[j].arg

\* C15's case: the primary type and the first alternate ran out of capacity and the
\* second alternate was launched.
C15_Witness ==
  /\ pc = "done"
  /\ Len(decl.alternate_instance_types) = 2
  /\ \E a, b, c \in 1..Len(calls) :
       /\ a < b /\ b < c
       /\ calls[a].op = "run_instances" /\ calls[a].arg = decl.instance_type
       /\ calls[a].obs = "InsufficientInstanceCapacity"
       /\ calls[b].op = "run_instances" /\ calls[b].arg = decl.alternate_instance_types[1]
       /\ calls[b].obs = "InsufficientInstanceCapacity"
       /\ calls[c].op = "run_instances" /\ calls[c].arg = decl.alternate_instance_types[2]
       /\ calls[c].ok

\* C16: when every candidate, the primary type and each of the N alternates, ran out
\* of capacity, the pass ends with the capacity error of the call for the last
\* candidate, which is the last provider call of the pass, and no instance was
\* created.
C16_RetryExhaustion ==
  LET cand == <<decl.instance_type>> \o decl.alternate_instance_types
      exhausted(t) ==
        \E k \in 1..Len(calls) :
          /\ calls[k].op = "run_instances"
          /\ calls[k].arg = t
          /\ calls[k].obs = "InsufficientInstanceCapacity"
  IN pc = "done" /\ (\A j \in 1..Len(cand) : exhausted(cand[j])) =>
       /\ result.failed
       /\ result.msg = "InsufficientInstanceCapacity"
       /\ calls[Len(calls)].op = "run_instances"
       /\ calls[Len(calls)].arg = cand[Len(cand)]
       /\ calls[Len(calls)].obs = result.msg
       /\ \A i \in Ids : inst[i].state /= "none" => inst[i].launch <= MaxTime

\* C16's case: a primary type and two alternates, three capacity errors in a row.
C16_Witness ==
  /\ pc = "done"
  /\ result.failed
  /\ Len(decl.alternate_instance_types) = 2
  /\ Len(calls) >= 3
  /\ \A j \in 1..3 :
       /\ calls[Len(calls) - 3 + j].op = "run_instances"
       /\ calls[Len(calls) - 3 + j].obs = "InsufficientInstanceCapacity"
       /\ calls[Len(calls) - 3 + j].arg =
            (<<decl.instance_type>> \o decl.alternate_instance_types)[j]

\* C17: once the primary type ran out of capacity and an alternate was launched, the
\* instance type the pass compares instances against is the launched alternate, and
\* no instance of that launch gets an instance-type modification in the pass.
C17_AlternateIsTheDeclaredType ==
  \A a, b \in 1..Len(calls) :
    /\ a < b
    /\ calls[a].op = "run_instances" /\ calls[a].arg = decl.instance_type
    /\ calls[a].obs = "InsufficientInstanceCapacity"
    /\ calls[b].op = "run_instances" /\ calls[b].arg /= decl.instance_type
    /\ calls[b].ok
    => /\ params.instance_type = calls[b].arg
       /\ \A i \in Ids :
            inst[i].state /= "none" /\ inst[i].launch > MaxTime =>
              /\ inst[i].itype = calls[b].arg
              /\ \A k \in 1..Len(calls) :
                   calls[k].op = "modify_instance_attribute" /\ i \in calls[k].ids
                     => calls[k].arg /= "InstanceType"

\* C17's case: an exact-count pass launched an alternate next to an instance it
\* found, and handle_existing went over both afterwards.
C17_Witness ==
  /\ pc = "done"
  /\ decl.exact_count /= NoneInt
  /\ params.instance_type /= decl.instance_type
  /\ \E i, j \in Ids :
       /\ inst[i].state /= "none" /\ inst[i].launch <= MaxTime
       /\ inst[j].state /= "none" /\ inst[j].launch > MaxTime
       /\ inst[j].itype = params.instance_type
  /\ \E k \in 1..Len(calls) : calls[k].op = "run_instances" /\ calls[k].ok

\* C18: an instance the pass found, whose type is the declared primary type, gets no
\* instance-type modification in the pass, and no stop call unless the declared
\* state asks for one.  It fails: an exact-count pass that launched an alternate has
\* rewritten module.params["instance_type"], and enforce_count's handle_existing then
\* compares the instances it found against the alternate.
C18_AlternatesLeaveExistingAlone ==
  \A k \in 1..Len(calls) :
    \A i \in calls[k].ids :
      inst[i].launch <= MaxTime =>
        /\ ~(calls[k].op = "modify_instance_attribute" /\ calls[k].arg = "InstanceType")
        /\ decl.state = "present" => calls[k].op /= "stop"

\* C19: every creation call of a pass, whatever the candidate and whether or not it
\* is the retry after the invalid-IAM-profile error, carries the token of the
\* creation request the pass built, which is the token of every other creation call
\* of the pass.
C19_OneTokenPerPass ==
  \A j, k \in 1..Len(calls) :
    calls[j].op = "run_instances" /\ calls[k].op = "run_instances" =>
      /\ calls[j].token = calls[k].token
      /\ "spec" \in result.keys => calls[k].token = result.spec.ClientToken

\* C19's case: a retry for the primary type after the invalid-IAM-profile error, then
\* a call for an alternate.
C19_Witness ==
  \E k \in 1..Len(calls) :
    /\ k + 2 <= Len(calls)
    /\ calls[k].op = "run_instances"
    /\ calls[k].obs = "Invalid IAM Instance Profile ARN"
    /\ calls[k + 1].op = "run_instances"
    /\ calls[k + 1].arg = calls[k].arg
    /\ calls[k + 1].obs = "InsufficientInstanceCapacity"
    /\ calls[k + 2].op = "run_instances"
    /\ calls[k + 2].arg /= calls[k].arg
    /\ calls[k + 2].ok

\* C20: a creation call for a candidate that fails with the invalid-IAM-profile error
\* is followed at once by one more call for the same candidate, and by no third one.
\* When that second call fails with capacity exhaustion, the next call is for the
\* next candidate, or, the candidate being the last, the pass ends with the capacity
\* error; when it fails otherwise no creation call follows.  No candidate gets more
\* than two creation calls.
C20_OneRetryAfterIamError ==
  LET cand == <<decl.instance_type>> \o decl.alternate_instance_types
      runs == {k \in 1..Len(calls) : calls[k].op = "run_instances"}
      pos(t) == CHOOSE j \in 1..Len(cand) : cand[j] = t
      opens(k) == \A j \in runs : j < k => calls[j].arg /= calls[k].arg
      last == Len(calls)
  IN /\ \A t \in Range(cand) : Cardinality({k \in runs : calls[k].arg = t}) <= 2
     /\ \A k \in runs :
          opens(k) /\ calls[k].obs = "Invalid IAM Instance Profile ARN" =>
            /\ k + 1 \in runs
            /\ calls[k + 1].arg = calls[k].arg
            /\ calls[k + 1].obs = "InsufficientInstanceCapacity" /\ pos(calls[k].arg) < Len(cand)
                 => k + 2 \in runs /\ calls[k + 2].arg = cand[pos(calls[k].arg) + 1]
            /\ calls[k + 1].obs = "InsufficientInstanceCapacity" /\ pos(calls[k].arg) = Len(cand)
                 => /\ last = k + 1
                    /\ pc = "done" => result.failed /\ result.msg = calls[k + 1].obs
            /\ calls[k + 1].obs \in {"Invalid IAM Instance Profile ARN", "other"}
                 => /\ last = k + 1
                    /\ pc = "done" => result.failed /\ result.msg = calls[k + 1].obs
            /\ calls[k + 1].ok => \A j \in runs : j <= k + 1

\* C20's case: the retry for the primary type ran out of capacity, the first call for
\* the next candidate met the invalid-IAM-profile error and its retry was accepted.
C20_Witness ==
  /\ pc = "done"
  /\ \E k \in 1..Len(calls) :
       /\ k + 3 <= Len(calls)
       /\ calls[k].op = "run_instances" /\ calls[k].arg = decl.instance_type
       /\ calls[k].obs = "Invalid IAM Instance Profile ARN"
       /\ calls[k + 1].op = "run_instances" /\ calls[k + 1].arg = decl.instance_type
       /\ calls[k + 1].obs = "InsufficientInstanceCapacity"
       /\ calls[k + 2].op = "run_instances" /\ calls[k + 2].arg /= decl.instance_type
       /\ calls[k + 2].obs = "Invalid IAM Instance Profile ARN"
       /\ calls[k + 3].op = "run_instances" /\ calls[k + 3].arg = calls[k + 2].arg
       /\ calls[k + 3].ok

\* C21: a creation call that fails with an error other than capacity exhaustion and
\* other than a first invalid-IAM-profile error (so also the retry that meets the
\* invalid-IAM-profile error again) is the last provider call of the pass, and the
\* pass ends with that error.
C21_OtherErrorsAreFatal ==
  \A k \in 1..Len(calls) :
    /\ calls[k].op = "run_instances"
    /\ ~calls[k].ok
    /\ calls[k].obs /= "InsufficientInstanceCapacity"
    /\ \/ calls[k].obs /= "Invalid IAM Instance Profile ARN"
       \/ \E j \in 1..(k - 1) : calls[j].op = "run_instances" /\ calls[j].arg = calls[k].arg
    => /\ k = Len(calls)
       /\ params.instance_type = decl.instance_type
       /\ \A i \in Ids : inst[i].state /= "none" => inst[i].launch <= MaxTime
       /\ pc = "done" => result.failed /\ result.msg = calls[k].obs

\* C21's case: alternates were still untried when the call for the primary type met
\* an error that is neither capacity exhaustion nor the invalid-IAM-profile error.
C21_Witness ==
  /\ pc = "done"
  /\ Len(decl.alternate_instance_types) > 0
  /\ calls[Len(calls)].op = "run_instances"
  /\ calls[Len(calls)].arg = decl.instance_type
  /\ calls[Len(calls)].obs = "other"

\* C22: with a launch template, no instance_type and no alternates declared, a pass
\* outside check mode that has to create instances, whose declaration passes the
\* validation and whose provider rejects nothing, issues exactly one creation call
\* and returns the instances it created.  It fails: without an instance type the
\* list of candidates is empty, no call is issued, and run_instances ends in
\* "raise last_error" with last_error = None.
C22_LaunchTemplateOnly ==
  /\ pc = "done"
  /\ ~decl.check_mode
  /\ Truthy(decl.launch_template)
  /\ ~Truthy(decl.instance_type)
  /\ decl.alternate_instance_types = <<>>
  /\ decl.network_interfaces = <<>>
  /\ \/ Len(he.matches) = 0
     \/ TruthyInt(decl.count)
     \/ TruthyInt(decl.exact_count) /\ Len(he.matches) < decl.exact_count
  /\ ~Troubled(calls)
  => /\ Cardinality({k \in 1..Len(calls) : calls[k].op = "run_instances"}) = 1
     /\ ~result.failed
     /\ \E i \in Ids : inst[i].state /= "none" /\ inst[i].launch > MaxTime
     /\ \A i \in Ids :
          inst[i].state /= "none" /\ inst[i].launch > MaxTime => i \in result.instance_ids

\* C23: a pass that reports a validation failure of the declaration (no image and no
\* launch template, two primary private addresses, private addresses with more than
\* one instance to launch, neither instance_type nor launch_template) has issued no
\* call that creates, changes or waits for an instance.
C23_ValidationBeforeMutation ==
  LET messages ==
        {"You must include an image_id or image.id parameter",
         "Only one primary private IP address can be specified when creating network interface.",
         "The option 'private_ip_address' cannot be specified when launching more than one instance.",
         "The option 'private_ip_addresses' cannot be specified when launching more than one instance.",
         "The option 'ipv6_addresses' cannot be specified when launching more than one instance.",
         "At least one of 'instance_type' and 'launch_template'"}
  IN result.failed /\ result.msg \in messages => calls = <<>>

\* C23 as stated: a pass that reports a validation failure has issued no provider
\* call at all, the lookup of the matching instances included, which main issues
\* whenever its filters are not empty.
C23_ValidationBeforeAnyCall ==
  LET messages ==
        {"You must include an image_id or image.id parameter",
         "Only one primary private IP address can be specified when creating network interface.",
         "The option 'private_ip_address' cannot be specified when launching more than one instance.",
         "The option 'private_ip_addresses' cannot be specified when launching more than one instance.",
         "The option 'ipv6_addresses' cannot be specified when launching more than one instance.",
         "At least one of 'instance_type' and 'launch_template'"}
  IN result.failed /\ result.msg \in messages =>
       calls = <<>> /\ ~main_filters(decl).any /\ Len(he.matches) = 0

\* C23's case: a declaration with a count and two primary private addresses, met by
\* a pass that had looked up and found instances before it built the request.
C23_Witness ==
  /\ pc = "done"
  /\ result.failed
  /\ result.msg = "Only one primary private IP address can be specified when creating network interface."
  /\ TruthyInt(decl.count)
  /\ Len(he.matches) > 0

\* C24: when the instance handle_existing has just gone over has one network
\* interface and the declaration differs from it in exactly one of ebs_optimized,
\* termination_protection, instance_type, the security groups and source_dest_check,
\* the diff computed for it has exactly one entry, for that instance and that
\* attribute, with the declared value.
C24_DiffMinimality ==
  pc = "handle_existing" /\ he.k > 1 =>
    LET s == he.matches[he.k - 1]
        groups == IF Truthy(decl.security_groups) THEN decl.security_groups
                  ELSE decl.security_group
        differs ==
          {x \in {"EbsOptimized", "DisableApiTermination", "InstanceType", "Groups",
                  "SourceDestCheck"} :
             CASE x = "EbsOptimized" ->
                    decl.ebs_optimized /= None /\ decl.ebs_optimized /= s.ebs
               [] x = "DisableApiTermination" ->
                    decl.termination_protection /= None /\ decl.termination_protection /= s.tprot
               [] x = "InstanceType" ->
                    decl.instance_type /= None /\ decl.instance_type /= s.itype
               [] x = "Groups" ->
                    Truthy(groups) /\ discover_security_groups(groups) /= s.groups
               [] x = "SourceDestCheck" ->
                    decl.source_dest_check /= None /\ decl.source_dest_check /= s.sdc}
        declared(x) ==
          CASE x = "EbsOptimized" -> decl.ebs_optimized
            [] x = "DisableApiTermination" -> decl.termination_protection
            [] x = "InstanceType" -> decl.instance_type
            [] x = "Groups" -> discover_security_groups(groups)
            [] x = "SourceDestCheck" -> decl.source_dest_check
    IN Cardinality(s.nics) = 1 /\ Cardinality(differs) = 1 =>
         /\ Len(he.changes) = 1
         /\ he.changes[1].InstanceId = s.id
         /\ he.changes[1].key \in differs
         /\ he.changes[1].value = declared(he.changes[1].key)

\* C24's case: the security groups are the one attribute that differs, and the diff
\* of the instance just gone over holds an entry.
C24_Witness ==
  /\ pc = "handle_existing"
  /\ he.k > 1
  /\ decl.security_groups = "db-sg"
  /\ decl.instance_type = he.matches[he.k - 1].itype
  /\ decl.source_dest_check = None
  /\ decl.ebs_optimized = None
  /\ decl.termination_protection = None
  /\ Len(he.changes) = 1
  /\ he.changes[1].key = "Groups"

\* C25: an attribute the declaration leaves out (ebs_optimized,
\* termination_protection, instance_type, the security groups, source_dest_check, the
\* metadata options) gets no entry in a diff and no modify call in the pass.  It
\* fails for instance_type: run_instances writes the alternate it launched into
\* module.params["instance_type"], declared or not, and the instances the pass had
\* found are then diffed against it.
C25_UndeclaredIsUntouched ==
  LET undeclared ==
        {x \in {"EbsOptimized", "DisableApiTermination", "InstanceType", "Groups",
                "SourceDestCheck"} :
           CASE x = "EbsOptimized" -> decl.ebs_optimized = None
             [] x = "DisableApiTermination" -> decl.termination_protection = None
             [] x = "InstanceType" -> decl.instance_type = None
             [] x = "Groups" -> ~Truthy(decl.security_groups) /\ ~Truthy(decl.security_group)
                                /\ decl.network_interfaces = <<>>
             [] x = "SourceDestCheck" -> decl.source_dest_check = None}
  IN /\ \A k \in 1..Len(he.changes) : he.changes[k].key \notin undeclared
     /\ \A k \in 1..Len(calls) :
          /\ calls[k].op = "modify_instance_attribute" => calls[k].arg \notin undeclared
          /\ decl.metadata_options = None => calls[k].op /= "modify_instance_metadata_options"

\* C26: when the declared state is not terminated or absent, no instance the pass
\* matched, in main or in a batch of lifecycle changes, is shutting-down or
\* terminated, with derived filters and with filters of the caller.  It fails for the
\* filters of the caller, which main hands on as they are.
C26_MatchedAreNotDestroyed ==
  decl.state \notin {"terminated", "absent"} =>
    /\ \A k \in 1..Len(he.matches) : he.matches[k].state \notin GoneStates
    /\ \A k \in 1..Len(cis.instances) : cis.instances[k].state \notin GoneStates

C28_ShrinkReportsVictims ==
  pc = "done" /\ ~decl.check_mode /\ ~result.failed =>
    \A k \in 1..Len(calls) :
      calls[k].op = "terminate" /\ calls[k].ok =>
        /\ "terminated_ids" \in result.keys
        /\ result.terminated_ids = calls[k].ids

\* C30: in a pass that shrinks the population to the exact count, no instance seen
\* stopping gets a terminate call unless a wait for stopped on it was issued before,
\* and none seen pending unless a wait for running on it was issued before.  It
\* fails: enforce_count calls terminate_instances on the victims as they are.
C30_ShrinkWaitsForStableState ==
  [][pc = "enforce_count" /\ Len(calls') > Len(calls)
     /\ calls'[Len(calls) + 1].op = "terminate" =>
       \A j \in 1..Len(he.matches) :
         /\ he.matches[j].id \in calls'[Len(calls) + 1].ids
         /\ he.matches[j].state \in {"stopping", "pending"}
         => \E m \in 1..Len(calls) :
              /\ calls[m].op = "wait"
              /\ he.matches[j].id \in calls[m].ids
              /\ calls[m].arg = (IF he.matches[j].state = "stopping"
                                 THEN "instance_stopped" ELSE "instance_running")]_vars

\* C29: with state restarted or rebooted outside check mode, a start call on an
\* instance that main observed running comes after a stop call on it, every start
\* call is on an instance observed stopped or comes after a wait for stopped on it,
\* and a pass that ends without failure has stopped and then started every instance
\* that main observed running.
C29_RestartIsStopThenStart ==
  LET stopped_before(i, k) ==
        \E m \in 1..(k - 1) : calls[m].op = "stop" /\ i \in calls[m].ids
      observed_running == {he.matches[j].id : j \in {j \in 1..Len(he.matches) :
                                                      he.matches[j].state = "running"}}
  IN decl.state \in {"restarted", "rebooted"} /\ ~decl.check_mode =>
       /\ \A k \in 1..Len(calls) :
            calls[k].op = "start" =>
              /\ \A i \in calls[k].ids \cap observed_running : stopped_before(i, k)
              /\ \/ calls[k].obs = "stopped"
                 \/ \E m \in 1..(k - 1) :
                      /\ calls[m].op = "wait"
                      /\ calls[m].arg = "instance_stopped"
                      /\ calls[k].ids \subseteq calls[m].ids
       /\ pc = "done" /\ ~result.failed =>
            \A i \in observed_running :
              \E k \in 1..Len(calls) :
                calls[k].op = "start" /\ i \in calls[k].ids /\ stopped_before(i, k)

\* A restart outside check mode, without waiting, ended without failure after an
\* instance observed running was stopped, found stopping, awaited and started.
C29_Witness ==
  /\ pc = "done" /\ ~result.failed /\ ~decl.check_mode /\ ~decl.wait
  /\ decl.state \in {"restarted", "rebooted"}
  /\ \E j \in 1..Len(he.matches), k \in 1..Len(calls) :
       /\ he.matches[j].state = "running"
       /\ calls[k].op = "start" /\ calls[k].ids = {he.matches[j].id}
       /\ calls[k].obs = "stopping"
       /\ \E m \in 1..(k - 1) : calls[m].op = "stop" /\ calls[m].ids = calls[k].ids

\* C31: a modify call for the instance type of an existing instance comes after a
\* forced wait for stopped on it and, unless main observed it stopping or stopped,
\* after a stop call on it; and a modification that went through is followed by a
\* start call on the instance when the declared state is present, running or started.
C31_TypeChangeOrdering ==
  \A k \in 1..Len(calls) :
    calls[k].op = "modify_instance_attribute" /\ calls[k].arg = "InstanceType" =>
      \A j \in 1..Len(he.matches) :
        he.matches[j].id \in calls[k].ids =>
          /\ he.matches[j].itype /= decl.instance_type
          /\ \E m \in 1..(k - 1) :
               /\ calls[m].op = "wait" /\ calls[m].arg = "instance_stopped"
               /\ calls[m].ids = calls[k].ids
          /\ \/ he.matches[j].state \in {"stopping", "stopped"}
             \/ \E m \in 1..(k - 1) : calls[m].op = "stop" /\ calls[m].ids = calls[k].ids
          /\ calls[k].ok /\ decl.state \in {"present", "running", "started"} =>
               \E m \in (k + 1)..Len(calls) :
                 calls[m].op = "start" /\ calls[m].ids = calls[k].ids

\* With state present and wait off, the type of an instance observed running was
\* modified after a stop and a wait, and the instance was started again.
C31_Witness ==
  /\ decl.state = "present" /\ ~decl.wait
  /\ \E j \in 1..Len(he.matches), k \in 1..Len(calls) :
       /\ he.matches[j].state = "running"
       /\ calls[k].op = "modify_instance_attribute" /\ calls[k].arg = "InstanceType"
       /\ calls[k].ok /\ calls[k].ids = {he.matches[j].id}
       /\ \E m \in 1..(k - 1) : calls[m].op = "stop" /\ calls[m].ids = calls[k].ids
       /\ \E m \in (k + 1)..Len(calls) :
            calls[m].op = "start" /\ calls[m].ok /\ calls[m].ids = calls[k].ids

\* C32: handle_existing goes over the matched instances one by one in match order,
\* each iteration issuing tag, metadata, attribute, profile and attachment calls on
\* its own instance only; the batch transition of change_instance_state begins only
\* when the loop has gone over every matched instance, and issues none of those calls.
C32_AttributesBeforeBatch ==
  [][LET attribute_ops == MutationOps \ {"run_instances", "start", "stop", "terminate"}
         issued == {calls'[k] : k \in (Len(calls) + 1)..Len(calls')}
     IN /\ pc /= "handle_existing" /\ pc' = "handle_existing" => he'.k = 1
        /\ pc = "handle_existing" /\ pc' = "handle_existing" =>
             /\ he.k <= Len(he.matches)
             /\ he'.k = he.k + 1
             /\ he'.matches = he.matches
             /\ \A c \in issued : c.op \in attribute_ops => c.ids = {he.matches[he.k].id}
        /\ pc = "handle_existing" /\ pc' = "change_instance_state" =>
             he.k = Len(he.matches) + 1 /\ issued = {}
        /\ pc = "change_instance_state" => \A c \in issued : c.op \notin attribute_ops]_vars

\* The batch transition has stopped an instance after handle_existing modified an
\* attribute of each of two matched instances.
C32_Witness ==
  /\ pc = "change_instance_state" /\ ret[1] = "handle_existing"
  /\ Len(he.matches) >= 2
  /\ \E a, b, c \in 1..Len(calls) :
       /\ a < b /\ b < c
       /\ calls[a].op = "modify_instance_attribute" /\ calls[a].ids = {he.matches[1].id}
       /\ calls[b].op = "modify_instance_attribute" /\ calls[b].ids = {he.matches[2].id}
       /\ calls[c].op = "stop" /\ calls[c].ok

C34_DryRunPredictsShrink ==
  [][pc = "enforce_count" /\ Len(he.matches) > params.exact_count =>
       LET victims == terminate_ids(he.matches, Len(he.matches) - params.exact_count)
       IN IF decl.check_mode
          THEN /\ calls' = calls
               /\ inst' = inst
               /\ "terminated_ids" \in result'.keys
               /\ result'.terminated_ids = victims
          ELSE /\ Len(calls') > Len(calls)
               /\ calls'[Len(calls) + 1].op = "terminate"
               /\ calls'[Len(calls) + 1].ids = victims
               /\ \A k \in (Len(calls) + 2)..Len(calls') : calls'[k].op /= "terminate"]_vars

\* A check-mode pass over instances launched at different times, the younger first
\* in match order, returned one victim and issued no call.
C34_Witness ==
  /\ pc = "done" /\ decl.check_mode /\ ~result.failed
  /\ TruthyInt(decl.exact_count)
  /\ Len(he.matches) > decl.exact_count
  /\ he.matches[1].launch > he.matches[2].launch
  /\ result.terminated_ids = {he.matches[2].id}
  /\ calls = <<>>

\* C35: a pass in which a start, stop or terminate call was rejected by the provider
\* ends in failure, whatever the matched instances and whatever the state in which
\* the instance of the rejected call was observed.  It fails for an instance observed
\* terminated, which a caller's filter can match: it is not among the instances to
\* change, so its rejected terminate call is not counted as a failure.
C35_NoTransitionErrorIsIgnored ==
  pc = "done" =>
    \A k \in 1..Len(calls) :
      calls[k].op \in {"start", "stop", "terminate"} /\ ~calls[k].ok => result.failed

\* C36: every instance that gets a modify, tag, attach, profile, start, stop or
\* terminate call was launched by this pass or is matched by the non-empty filter of
\* the declaration; and when the derived filter is empty, every instance the pass
\* has queried for handle_existing or for a batch of lifecycle changes was launched
\* by this pass.  It fails: after creating, enforce_count queries with the empty
\* filter, which matches every instance there is.
C36_OwnPopulationOnly ==
  LET filters == main_filters(decl)
      created(i) == inst[i].launch = MaxTime + pass
      own(i) == created(i) \/ (filters.any /\ i \in filters.ids)
  IN /\ \A k \in 1..Len(calls) :
          calls[k].op \in MutationOps \ {"run_instances"} => \A i \in calls[k].ids : own(i)
     /\ ~filters.any =>
          /\ \A j \in 1..Len(he.matches) : created(he.matches[j].id)
          /\ \A j \in 1..Len(cis.instances) : created(cis.instances[j].id)

\* C37: with state present declared, a step of the pass that finds every existing
\* instance of the declared instance type issues no start and no stop call on an
\* instance that existed before the pass, and no terminate call on one unless an
\* exact count is declared (whose surplus enforce_count terminates).  It fails: after
\* a launch of an alternate type the existing instances are compared with that type,
\* not with the declared one.
C37_PresentLeavesStateAlone ==
  [][LET existing == {i \in Ids : inst[i].state /= "none" /\ inst[i].launch <= MaxTime}
         issued == {calls'[k] : k \in (Len(calls) + 1)..Len(calls')}
     IN decl.state = "present"
        /\ (\A i \in existing :
              Truthy(decl.instance_type) => inst[i].itype = decl.instance_type) =>
          \A c \in issued :
            /\ c.op \in {"start", "stop"} => c.ids \cap existing = {}
            /\ c.op = "terminate" /\ ~TruthyInt(decl.exact_count) =>
                 c.ids \cap existing = {}]_vars

\* C38: a pass outside check mode that ended without failure with the result of
\* handle_existing lists in "changes" an entry for every attribute modification it
\* issued, for whichever matched instance.  It fails: the result takes the diff of
\* the last instance of the loop instead of the list gathered over all of them.
C38_ChangesCoverTheBatch ==
  pc = "done" /\ ~decl.check_mode /\ ~result.failed /\ "changes" \in result.keys =>
    \A k \in 1..Len(calls) :
      calls[k].op = "modify_instance_attribute" /\ calls[k].ok =>
        \E c \in 1..Len(result.changes) :
          /\ result.changes[c].InstanceId \in calls[k].ids
          /\ result.changes[c].key = calls[k].arg

\* C39: with K candidates (the declared instance type, if any, and the alternates) a
\* pass issues at most 2 * K creation calls, no call is for a candidate that comes
\* before the candidate of an earlier call, no call follows an accepted one, and a
\* pass whose last creation call was rejected ends in failure with that call's error.
C39_BoundedAttempts ==
  LET cand == (IF Truthy(decl.instance_type) THEN <<decl.instance_type>> ELSE <<>>)
                \o decl.alternate_instance_types
      runs == {k \in 1..Len(calls) : calls[k].op = "run_instances"}
      pos(t) == CHOOSE j \in 1..Len(cand) : cand[j] = t
  IN /\ Cardinality(runs) <= 2 * Len(cand)
     /\ \A j, k \in runs :
          j < k => /\ calls[j].arg \in Range(cand) /\ calls[k].arg \in Range(cand)
                   /\ pos(calls[j].arg) <= pos(calls[k].arg)
                   /\ ~calls[j].ok
     /\ \A k \in runs :
          pc = "done" /\ ~calls[k].ok /\ (\A j \in runs : j <= k) =>
            result.failed /\ result.msg = calls[k].obs

\* Three candidates met five rejections (an IAM error and a capacity error for the
\* first two, a capacity error for the third) and the pass ended in failure.
C39_Witness ==
  /\ pc = "done" /\ result.failed
  /\ Len(decl.alternate_instance_types) = 2
  /\ Cardinality({k \in 1..Len(calls) : calls[k].op = "run_instances"}) = 5
  /\ \A k \in 1..Len(calls) : calls[k].op = "run_instances" => ~calls[k].ok

\* C40: every wait the pass issues polls every 15 seconds, at most
\* floor(wait_timeout / 15) times, so that the delay times the attempts does not
\* exceed wait_timeout and misses it by less than one delay; and the wait that ends a
\* batch of lifecycle changes is one call for all the changed and unchanged ids.
C40_WaitBudget ==
  [][LET issued == {k \in (Len(calls) + 1)..Len(calls') : calls'[k].op = "wait"}
     IN /\ \A k \in issued :
             LET config == calls'[k].WaiterConfig
             IN /\ config.Delay = 15
                /\ config.Delay * config.MaxAttempts <= decl.wait_timeout
                /\ decl.wait_timeout < config.Delay * (config.MaxAttempts + 1)
        /\ pc = "change_instance_state" /\ cis.k > Len(cis.instances) =>
             /\ Cardinality(issued) <= 1
             /\ \A k \in issued : calls'[k].ids = cis.changed \cup cis.unchanged
             /\ cis.changed /= {} /\ decl.wait /\ ~decl.check_mode => issued /= {}]_vars

\* With wait_timeout = 44 a batch of two stopped instances ended with one wait for
\* both of them, configured with two attempts.
C40_Witness ==
  /\ decl.wait_timeout = 44
  /\ \E k \in 1..Len(calls) :
       /\ calls[k].op = "wait"
       /\ Cardinality(calls[k].ids) = 2
       /\ calls[k].arg = "instance_stopped"
       /\ calls[k].WaiterConfig = [Delay |-> 15, MaxAttempts |-> 2]

====
